---- MODULE Spec2Model ----
(***************************************************************************)
(* Verification model of the geospatial acquisition-and-feature pipeline   *)
(* of Project_Trikal (Himalayan Sentinel).                                 *)
(*                                                                         *)
(* The module holds several state machines over one set of variables:      *)
(*   SpecTiles  the tile-grid resolver (get_required_dem_tiles and the     *)
(*              inline loop of DEMDownloader.download_dem_data) and the    *)
(*              remote locator built from each tile name;                  *)
(*   SpecDem    the DEM download procedures with their remote handles;     *)
(*   SpecSar    SARDownloader.download_sar_data;                           *)
(*   SpecShape  match_shapes, applied once and twice;                      *)
(*   SpecFeat   the three feature-table pipelines.                         *)
(* Each specification leaves the other machines' variables idle.           *)
(*                                                                         *)
(* Conventions.  A coordinate is a fixed-point number of 1/Scale degrees.  *)
(* A Python string that the code builds or takes apart is a sequence of    *)
(* one-character strings (literal pieces that are never split are kept as  *)
(* one token).  None is the string "None".                                 *)
(***************************************************************************)
EXTENDS Integers, Sequences, FiniteSets, TLC

VARIABLES
    \* ---- tile resolver ----
    t_pc,            \* "input" | "resolved" | "located"
    t_impl,          \* "aws" (data_service) | "backend" (DEMDownloader)
    t_bounds,        \* <<west, south, east, north>>, fixed point
    t_tiles,         \* the list of tile names
    t_urls,          \* the remote locator of each tile, same order
    \* ---- DEM download (download_dem_from_aws / download_dem_data) ----
    d_pc,            \* "start" | "probe" | "open" | "merge" | "write" | "done"
    d_impl,          \* "aws" | "backend"
    d_wkt,           \* wkt_aoi: "polygon" | "malformed" | "invalid_polygon"
    d_bounds,        \* aoi_geom.bounds
    d_tiles,         \* tile_names / tiles
    d_idx,           \* position of the "for tile in ..." loop, 1-based
    remote_datasets, \* the opened handles, in append order (a handle = tile index)
    d_closed,        \* the handles on which close() has been called
    d_valid,         \* per opened handle, the mosaic pixels where it has data
    d_merged,        \* merged_data: per mosaic pixel, the handle it came from
    d_result,        \* "running" | "ok" | "error" (returned) | "raised"
    \* ---- SARDownloader.download_sar_data ----
    s_pc,                  \* "start" | "search" | "select" | "download" | "done"
    polarizations,         \* the requested polarizations, a list
    results,               \* the catalog's answer: a list of products
    valid_oldest_scene,    \* position in results of the product, 0 for None
    valid_newest_scene,    \* position in results of the product, 0 for None
    products_to_download,  \* list of positions in results
    s_prod,                \* position of "for product in products_to_download"
    s_item,                \* position in the product's (pol, url) iterations
    downloaded_files,      \* {pol: [final_filepath, ...]}
    download_calls,        \* every asf.download_url call made: <<scene, url>>
    s_wkt,                 \* wkt_aoi: "polygon" | "malformed" | "invalid_polygon"
    s_effects,             \* what the call has done outside: "directories", "search"
    s_failed,              \* the scenes whose except clause has run
    s_result,              \* "running" | "success" | "failure" | "raised"
    \* ---- match_shapes ----
    m_pc,            \* "input" | "once" | "twice"
    m_impl,          \* which of the three definitions of match_shapes
    m_array1,        \* the first argument
    m_array2,        \* the second argument
    m_once,          \* the pair returned for (m_array1, m_array2)
    m_twice,         \* the pair returned for the pair in m_once
    \* ---- the feature-table pipelines ----
    f_pc,            \* "loaded" | "matched" | "features" | "assembled" |
                     \* "predicted" | "done"
    f_impl,          \* "main" | "process_all_data" | "run_pipeline" |
                     \* "make_prediction"
    f_data,          \* the rasters as loaded, by name (NoArray for None)
    f_loc,           \* the local variables of the pipeline, by name
    f_handed,        \* the four arguments of assemble_feature_table
    f_table,         \* the DataFrame it returned
    f_result,        \* "running" | "table" | "none" (returned None) | "raised"
    f_model,         \* the calls that handed f_table to the risk model
    f_read,          \* the column names the consumer of the table asked for
    f_end,           \* "running" | "reported" | "error_result" | "raised"
    \* the feature functions, each applied to the same four rasters
    n_in,            \* the rasters vv_before, vv_after, vh_before, vh_after
    n_out,           \* the array each function returned (NoArray: not called)
    n_divisor,       \* the arrays each ratio function divided by
    \* calculate_correlation_map
    c_pc,            \* "input" | "padded" | "tiles" | "done"
    c_before,        \* before_band
    c_after,         \* after_band
    c_window,        \* window_size
    c_pad,           \* <<before_padded, after_padded>>
    c_tile_size,     \* tile_size
    c_tile,          \* the tiles still to compute, <<r, c>> of their origin
    c_out,           \* correlation_map
    c_writes,        \* how many times each pixel of correlation_map was assigned
    \* ---- IntegratedAnalysisService.run_complete_analysis ----
    r_pc,            \* "idle" | "start" | "dem" | "sar" | "predict" | "done"
    r_calls,         \* the components invoked so far, in order
    r_sar_files,     \* sar_files: {} or the downloaded_files of the SAR result
    r_file_paths,    \* file_paths as handed to the predictor
    r_result         \* the dictionary returned: key -> value

tileVars == <<t_pc, t_impl, t_bounds, t_tiles, t_urls>>
demVars == <<d_pc, d_impl, d_wkt, d_bounds, d_tiles, d_idx, remote_datasets,
             d_closed, d_valid, d_merged, d_result>>

sarVars == <<s_pc, polarizations, results, valid_oldest_scene, valid_newest_scene,
             products_to_download, s_prod, s_item, downloaded_files,
             download_calls, s_wkt, s_effects, s_failed, s_result>>

shapeVars == <<m_pc, m_impl, m_array1, m_array2, m_once, m_twice>>

consumerVars == <<f_model, f_read, f_end>>

featVars == <<f_pc, f_impl, f_data, f_loc, f_handed, f_table, f_result,
              consumerVars>>

numVars == <<n_in, n_out, n_divisor>>

corrVars == <<c_pc, c_before, c_after, c_window, c_pad, c_tile_size, c_tile,
              c_out, c_writes>>

runVars == <<r_pc, r_calls, r_sar_files, r_file_paths, r_result>>

calcVars == <<numVars, corrVars, runVars>>

vars == <<tileVars, demVars, sarVars, shapeVars, featVars, calcVars>>

None == "None"

(***************************************************************************)
(* Bounds of the model.                                                    *)
(***************************************************************************)
\* Boxes reach at most MaxDeg degrees on either side of their anchor.
MaxDeg == 1

\* The DEM download is followed for areas of at most MaxTiles tiles.
MaxTiles == 3

\* The catalog answers with at most MaxScenes scenes.
MaxScenes == 5

\* The arrays given to match_shapes have 0 .. MaxDim rows and columns.
MaxDim == 2

\* The rasters given to the pipelines have at least one and at most MaxPix
\* pixels.
MaxPix == 3
MaxWindow == 3
MaxTileSize == 2

\* Fixed-point scale: three decimals, as in the AOI 72.521 23.042.
Scale == 10 * 10 * 10
Half == Scale \div 2

(***************************************************************************)
(* Arithmetic helpers.                                                     *)
(***************************************************************************)
Abs(x) == IF x >= 0 THEN x ELSE -x
Min2(a, b) == IF a <= b THEN a ELSE b
Max2(a, b) == IF a >= b THEN a ELSE b

\* math.floor / math.ceil of a fixed-point coordinate, in whole degrees.
FloorCeilMinusOne(x) == -((-x) \div Scale) - 1
Floor(x) == x \div Scale
CeilFloorPlusOne(x) == (x \div Scale) + 1
Ceil(x) == -((-x) \div Scale)

\* range(a, b) as a sequence.
Range(a, b) == [k \in 1..Max2(0, b - a) |-> a + k - 1]

(***************************************************************************)
(* String formatting, as Python's format mini-language does it.            *)
(***************************************************************************)
DigitChar == <<"0", "1", "2", "3", "4", "5", "6", "7", "8", "9">>

RECURSIVE DecDigits(_)
DecDigits(n) ==
    IF n < 10 THEN <<DigitChar[n + 1]>>
    ELSE DecDigits(n \div 10) \o <<DigitChar[(n % 10) + 1]>>

\* f"{n:0<width>d}" for n >= 0: at least width digits, zero-padded on the left.
ZeroPad(n, width) ==
    LET d == DecDigits(n)
    IN IF Len(d) >= width THEN d
       ELSE [i \in 1..(width - Len(d)) |-> "0"] \o d

\* str.split(sep) for a one-character separator.
RECURSIVE Split(_, _)
Split(s, sep) ==
    IF \A i \in 1..Len(s) : s[i] # sep THEN <<s>>
    ELSE LET i == CHOOSE k \in 1..Len(s) :
                      s[k] = sep /\ \A m \in 1..(k - 1) : s[m] # sep
         IN <<SubSeq(s, 1, i - 1)>> \o Split(SubSeq(s, i + 1, Len(s)), sep)

(***************************************************************************)
(* TileGridResolver.                                                       *)
(***************************************************************************)
\* f"{ns}{abs(lat):02d}_{ew}{abs(lon):03d}" with ns, ew as lines 50-51.
TileNameNoHemisphere(lat, lon) ==
    <<"N">> \o ZeroPad(Abs(lat), 2) \o <<"_">> \o <<"E">> \o ZeroPad(Abs(lon), 3)
TileName(lat, lon) ==
    LET ns == IF lat >= 0 THEN "N" ELSE "S"
        ew == IF lon >= 0 THEN "E" ELSE "W"
    IN <<ns>> \o ZeroPad(Abs(lat), 2) \o <<"_">> \o <<ew>> \o ZeroPad(Abs(lon), 3)

\* The nested loops "for lon in range(..): for lat in range(..)": the tiles in
\* append order, longitude-major.
TileLoop(lons, lats) ==
    [k \in 1..(Len(lons) * Len(lats)) |->
        TileName(lats[((k - 1) % Len(lats)) + 1], lons[((k - 1) \div Len(lats)) + 1])]

get_required_dem_tiles(bounds) ==
    LET west == bounds[1]
        south == bounds[2]
        east == bounds[3]
        north == bounds[4]
        lon_start == Floor(west)
        lon_end == Ceil(east)
        lat_start == Floor(south)
        lat_end == Ceil(north)
    IN TileLoop(Range(lon_start, lon_end), Range(lat_start, lat_end))

\* The same loop written inline in DEMDownloader.download_dem_data.
DEMDownloader_tiles(bounds) ==
    LET west == bounds[1]
        south == bounds[2]
        east == bounds[3]
        north == bounds[4]
    IN TileLoop(Range(Floor(west), Ceil(east)), Range(Floor(south), Ceil(north)))

\* The remote locator of a tile (download_dem_from_aws line 84): the tile name
\* is split at "_" and both parts are placed twice.
s3_base_url == "https://copernicus-dem-30m.s3.eu-central-1.amazonaws.com/"
DEM_SOURCE == "https://copernicus-dem-30m.s3.eu-central-1.amazonaws.com/"

LocatorOf(base, lat_part, lon_part) ==
    <<base, "Copernicus_DSM_COG_10_">> \o lat_part \o <<"_00_">> \o lon_part
        \o <<"_00_DEM/Copernicus_DSM_COG_10_">> \o lat_part \o <<"_00_">>
        \o lon_part \o <<"_00_DEM.tif">>

dem_url(tile) ==
    LocatorOf(s3_base_url, Split(tile, "_")[1], Split(tile, "_")[2])

DEMDownloader_url(tile) ==
    LET lat_part == Split(tile, "_")[1]
        lon_part == Split(tile, "_")[2]
    IN LocatorOf(DEM_SOURCE, lat_part, lon_part)

(***************************************************************************)
(* Inputs of the resolver: bounding boxes as shapely's .bounds returns     *)
(* them, (minx, miny, maxx, maxy), so west <= east and south <= north.     *)
(* Boxes lie on a half-degree grid around a few anchors (equator and       *)
(* prime meridian, the spec's AOI region, a south-west region), plus the   *)
(* spec's end-to-end AOI itself.                                           *)
(***************************************************************************)
Anchors == {<<0, 0>>, <<23, 72>>, <<-34, -120>>}   \* <<lat, lon>>

Offsets == {k * Half : k \in (-2 * MaxDeg)..(2 * MaxDeg)}

ExampleBox == <<72521, 23032, 72535, 23042>>

Boxes ==
    {<<a[2] * Scale + w, a[1] * Scale + s, a[2] * Scale + e, a[1] * Scale + n>> :
        a \in Anchors,
        w \in Offsets, s \in Offsets,
        e \in Offsets, n \in Offsets}

ValidBoxes == {b \in Boxes : b[1] <= b[3] /\ b[2] <= b[4]} \cup {ExampleBox}

(***************************************************************************)
(* SpecTiles: resolve the tiles of a box, then build their locators.       *)
(***************************************************************************)
InitTiles ==
    /\ t_pc = "input"
    /\ t_impl \in {"aws", "backend"}
    /\ t_bounds \in ValidBoxes
    /\ t_tiles = <<>>
    /\ t_urls = <<>>

IdleTiles ==
    /\ t_pc = "idle"
    /\ t_impl = "aws"
    /\ t_bounds = ExampleBox
    /\ t_tiles = <<>>
    /\ t_urls = <<>>

ResolveAws ==
    /\ t_pc = "input"
    /\ t_impl = "aws"
    /\ t_tiles' = get_required_dem_tiles(t_bounds)
    /\ t_pc' = "resolved"
    /\ UNCHANGED <<t_impl, t_bounds, t_urls>>

ResolveBackend ==
    /\ t_pc = "input"
    /\ t_impl = "backend"
    /\ t_tiles' = DEMDownloader_tiles(t_bounds)
    /\ t_pc' = "resolved"
    /\ UNCHANGED <<t_impl, t_bounds, t_urls>>

LocateTiles ==
    /\ t_pc = "resolved"
    /\ t_urls' = [k \in 1..Len(t_tiles) |->
                    IF t_impl = "aws" THEN dem_url(t_tiles[k])
                    ELSE DEMDownloader_url(t_tiles[k])]
    /\ t_pc' = "located"
    /\ UNCHANGED <<t_impl, t_bounds, t_tiles>>

NextTiles ==
    \/ ResolveAws /\ UNCHANGED <<demVars, sarVars, shapeVars, featVars, calcVars>>
    \/ ResolveBackend /\ UNCHANGED <<demVars, sarVars, shapeVars, featVars, calcVars>>
    \/ LocateTiles /\ UNCHANGED <<demVars, sarVars, shapeVars, featVars, calcVars>>

(***************************************************************************)
(* DEM download: download_dem_from_aws (data_service) and                  *)
(* DEMDownloader.download_dem_data (backend).  The network and the raster  *)
(* library are the environment: a HEAD request answers 200, another status *)
(* or fails to connect; rasterio.open, rasterio.merge.merge and the write  *)
(* of the output file succeed or raise.  A rasterio error is not a         *)
(* requests.exceptions.RequestException.                                   *)
(***************************************************************************)
\* The AOI texts: a simple polygon, a text that is not WKT, and a polygon
\* that parses but is self-intersecting or has no area.
WktKinds == {"polygon", "malformed", "invalid_polygon"}

DemBoxes ==
    {b \in ValidBoxes :
        /\ Floor(b[1]) >= -MaxDeg /\ Ceil(b[3]) <= MaxDeg
        /\ Floor(b[2]) >= -MaxDeg /\ Ceil(b[4]) <= MaxDeg
        /\ Len(get_required_dem_tiles(b)) <= MaxTiles}

InitDem ==
    /\ d_pc = "start"
    /\ d_impl \in {"aws", "backend"}
    /\ d_wkt \in WktKinds
    /\ d_bounds \in DemBoxes
    /\ d_tiles = <<>>
    /\ d_idx = 1
    /\ remote_datasets = <<>>
    /\ d_closed = {}
    /\ d_valid = <<>>
    /\ d_merged = <<>>
    /\ d_result = "running"

IdleDem ==
    /\ d_pc = "idle"
    /\ d_impl = "aws"
    /\ d_wkt = "polygon"
    /\ d_bounds = ExampleBox
    /\ d_tiles = <<>>
    /\ d_idx = 1
    /\ remote_datasets = <<>>
    /\ d_closed = {}
    /\ d_valid = <<>>
    /\ d_merged = <<>>
    /\ d_result = "running"

DemReturn(res) ==
    /\ d_pc' = "done"
    /\ d_result' = res

\* wkt_loads raises ShapelyError: both procedures return a failure result.
DemParseFails ==
    /\ d_pc = "start"
    /\ d_wkt = "malformed"
    /\ DemReturn("error")
    /\ UNCHANGED <<d_impl, d_wkt, d_bounds, d_tiles, d_idx, remote_datasets, d_closed,
                   d_valid, d_merged>>

\* The AOI parses (the geometry is not examined further); the tiles of its
\* bounds are computed.  download_dem_from_aws returns None when there is
\* no tile; download_dem_data goes on to its (empty) loop.
DemResolve ==
    /\ d_pc = "start"
    /\ d_wkt # "malformed"
    /\ d_tiles' = (IF d_impl = "aws" THEN get_required_dem_tiles(d_bounds)
                   ELSE DEMDownloader_tiles(d_bounds))
    /\ IF d_impl = "aws" /\ d_tiles' = <<>>
       THEN DemReturn("error")
       ELSE d_pc' = "probe" /\ UNCHANGED d_result
    /\ UNCHANGED <<d_impl, d_wkt, d_bounds, d_idx, remote_datasets, d_closed,
                   d_valid, d_merged>>

\* requests.head(url) for the current tile.
DemHead ==
    /\ d_pc = "probe"
    /\ d_idx <= Len(d_tiles)
    /\ \E answer \in {"200", "other status", "RequestException"} :
         IF answer = "200"
         THEN d_pc' = "open" /\ UNCHANGED d_idx
         ELSE d_pc' = "probe" /\ d_idx' = d_idx + 1
    /\ UNCHANGED <<d_impl, d_wkt, d_bounds, d_tiles, remote_datasets, d_closed,
                   d_valid, d_merged, d_result>>

\* Two pixels of the clipped mosaic; the merge treats each pixel by itself.
MosaicPixels == {1, 2}

\* remote_datasets.append(rasterio.open(url)); an error raised by
\* rasterio.open is caught by neither procedure and leaves it.  The
\* dataset that opens has data at some of the mosaic pixels (a pixel
\* outside its extent or holding its nodata value has none).
DemOpen ==
    /\ d_pc = "open"
    /\ \E opens \in BOOLEAN, valid \in SUBSET MosaicPixels :
         IF opens
         THEN /\ remote_datasets' = Append(remote_datasets, d_idx)
              /\ d_valid' = Append(d_valid, valid)
              /\ d_idx' = d_idx + 1
              /\ d_pc' = "probe"
              /\ UNCHANGED d_result
         ELSE /\ DemReturn("raised")
              /\ UNCHANGED <<remote_datasets, d_valid, d_idx>>
    /\ UNCHANGED <<d_impl, d_wkt, d_bounds, d_tiles, d_closed, d_merged>>

\* After the loop: "if not remote_datasets: return <failure>".
DemLoopEnd ==
    /\ d_pc = "probe"
    /\ d_idx > Len(d_tiles)
    /\ IF remote_datasets = <<>>
       THEN DemReturn("error")
       ELSE d_pc' = "merge" /\ UNCHANGED d_result
    /\ UNCHANGED <<d_impl, d_wkt, d_bounds, d_tiles, d_idx, remote_datasets, d_closed,
                   d_valid, d_merged>>

\* The handles closed by "for ds in remote_datasets: ds.close()".
CloseNone(handles) == {}
CloseAll(handles) == {handles[k] : k \in 1..Len(handles)}

\* A mosaic pixel without data; a pixel with data holds the handle it was
\* read from.
NoData == 0

\* method='last' of rasterio.merge: a source with data overwrites.
copy_last(merged_data, new_data) ==
    [p \in MosaicPixels |->
        IF new_data[p] # NoData THEN new_data[p] ELSE merged_data[p]]

\* method='first' of rasterio.merge: a source fills only the pixels that
\* have no data yet.
copy_first(merged_data, new_data) ==
    [p \in MosaicPixels |->
        IF merged_data[p] = NoData /\ new_data[p] # NoData
        THEN new_data[p] ELSE merged_data[p]]

\* The sources painted on the destination one after the other, in the
\* order of the list.
RECURSIVE Painted(_, _)
Painted(dest, sources) ==
    IF sources = <<>> THEN dest
    ELSE Painted(copy_first(dest, Head(sources)), Tail(sources))

\* rasterio.merge.merge(remote_datasets, bounds=bounds, precision=7): no
\* method is passed, so the default 'first' applies.
merge(datasets, valid) ==
    Painted([p \in MosaicPixels |-> NoData],
            [k \in 1 .. Len(datasets) |->
                [p \in MosaicPixels |->
                    IF p \in valid[k] THEN datasets[k] ELSE NoData]])

\* rasterio.merge.merge, the profile update and the close loop, inside try.
\* When the merge (or the profile read) raises, the except clause returns
\* the failure and the close loop is skipped.
DemMerge ==
    /\ d_pc = "merge"
    /\ \E merges \in BOOLEAN :
         IF merges
         THEN /\ d_merged' = merge(remote_datasets, d_valid)
              /\ d_closed' = d_closed \cup CloseAll(remote_datasets)
              /\ d_pc' = "write"
              /\ UNCHANGED d_result
         ELSE /\ DemReturn("error")
              /\ UNCHANGED <<d_closed, d_merged>>
    /\ UNCHANGED <<d_impl, d_wkt, d_bounds, d_tiles, d_idx, remote_datasets, d_valid>>

\* Writing the output file.  download_dem_from_aws writes outside any try
\* (an error leaves the function); download_dem_data writes inside its try
\* (an error is returned as a failure).  Either returns a failure when the
\* file does not exist afterwards.
DemWrite ==
    /\ d_pc = "write"
    /\ \E outcome \in {"written", "raises", "missing"} :
         DemReturn(CASE outcome = "written" -> "ok"
                     [] outcome = "missing" -> "error"
                     [] OTHER -> IF d_impl = "aws" THEN "raised" ELSE "error")
    /\ UNCHANGED <<d_impl, d_wkt, d_bounds, d_tiles, d_idx, remote_datasets, d_closed,
                   d_valid, d_merged>>

NextDem ==
    \/ DemParseFails /\ UNCHANGED <<tileVars, sarVars, shapeVars, featVars, calcVars>>
    \/ DemResolve /\ UNCHANGED <<tileVars, sarVars, shapeVars, featVars, calcVars>>
    \/ DemHead /\ UNCHANGED <<tileVars, sarVars, shapeVars, featVars, calcVars>>
    \/ DemOpen /\ UNCHANGED <<tileVars, sarVars, shapeVars, featVars, calcVars>>
    \/ DemLoopEnd /\ UNCHANGED <<tileVars, sarVars, shapeVars, featVars, calcVars>>
    \/ DemMerge /\ UNCHANGED <<tileVars, sarVars, shapeVars, featVars, calcVars>>
    \/ DemWrite /\ UNCHANGED <<tileVars, sarVars, shapeVars, featVars, calcVars>>

(***************************************************************************)
(* SARDownloader.download_sar_data.                                        *)
(*                                                                         *)
(* A product is [sceneName, additionalUrls]; the scene name is the unique  *)
(* scene identifier of the catalog.  A URL is a token sequence ending in   *)
(* "_", <pol>, <extension> (or otherwise), so that str.endswith is a test  *)
(* on its tail.  The catalog search, asf.download_url and os.rename are    *)
(* the environment.                                                        *)
(***************************************************************************)
DEFAULT_POLARIZATIONS == <<"VV", "VH">>

\* str.endswith.
EndsWith(str, suffix) ==
    /\ Len(str) >= Len(suffix)
    /\ SubSeq(str, Len(str) - Len(suffix) + 1, Len(str)) = suffix

\* f"_{pol}.tif"
PolSuffix(pol) == <<"_", pol, ".tif">>

\* str.lower() of a polarization name.
Lower(pol) ==
    CASE pol = "VV" -> "vv" [] pol = "VH" -> "vh"
      [] pol = "HH" -> "hh" [] pol = "HV" -> "hv" [] OTHER -> pol

SceneName(i) == <<"S">> \o DecDigits(i)

Endpoint(i, dir, tail) == <<"https://datapool/", dir, "/">> \o SceneName(i) \o tail

\* The endpoint lists a scene may expose: none; VV with VH only in another
\* format and a mask; VV and VH; VV and VH with a second VV endpoint.
UrlProfiles == 0..3
ProfileUrls(i, profile) ==
    CASE profile = 0 -> <<>>
      [] profile = 1 -> <<Endpoint(i, "a", <<"_", "VV", ".tif">>),
                          Endpoint(i, "a", <<"_", "VH", ".h5">>),
                          Endpoint(i, "a", <<"_", "mask", ".tif">>)>>
      [] profile = 2 -> <<Endpoint(i, "a", <<"_", "VV", ".tif">>),
                          Endpoint(i, "a", <<"_", "VH", ".tif">>)>>
      [] OTHER       -> <<Endpoint(i, "a", <<"_", "VV", ".tif">>),
                          Endpoint(i, "a", <<"_", "VH", ".tif">>),
                          Endpoint(i, "b", <<"_", "VV", ".tif">>)>>

Product(i, profile) ==
    [sceneName |-> SceneName(i), additionalUrls |-> ProfileUrls(i, profile)]

\* What asf.search may return: up to MaxScenes products with distinct names.
Catalogs ==
    UNION {{[i \in 1..n |-> Product(i, f[i])] : f \in [1..n -> UrlProfiles]} :
              n \in 0..MaxScenes}

\* The polarization lists of a request; "XX" is not a polarization.
PolChoices == {DEFAULT_POLARIZATIONS, <<"VV">>, <<"VV", "XX">>}

\* validate_inputs: wkt_loads raises ShapelyError, or geom.is_valid is
\* False, or the dates do not parse or are not in order.
validate_inputs(wkt_aoi, dates_in_order) ==
    IF wkt_aoi = "malformed" THEN <<FALSE, "WKT parsing error">>
    ELSE IF wkt_aoi = "invalid_polygon" THEN <<FALSE, "Invalid geometry">>
    ELSE IF ~dates_in_order THEN <<FALSE, "dates">>
    ELSE <<TRUE, "None">>

\* all(any(url.endswith(f"_{pol}.tif") for url in urls) for pol in polarizations)
Qualifies(product, pols) ==
    LET urls == product.additionalUrls
    IN \A p \in 1..Len(pols) :
          \E u \in 1..Len(urls) : EndsWith(urls[u], PolSuffix(pols[p]))

\* "for product in results: if <qualifies>: ...; break", from position i on.
RECURSIVE ScanForward(_, _, _)
ScanForward(rs, pols, i) ==
    IF i > Len(rs) THEN 0
    ELSE IF Qualifies(rs[i], pols) THEN i
    ELSE ScanForward(rs, pols, i + 1)

\* "for product in reversed(results): ...; break", from position i down.
RECURSIVE ScanBackward(_, _, _)
ScanBackward(rs, pols, i) ==
    IF i < 1 THEN 0
    ELSE IF Qualifies(rs[i], pols) THEN i
    ELSE ScanBackward(rs, pols, i - 1)

FindOldestAsNewest(rs, pols) == ScanForward(rs, pols, 1)
\* A variant whose forward scan passes over the first product.
FindOldestSkippingFirst(rs, pols) == ScanForward(rs, pols, 2)
FindOldest(rs, pols) == ScanForward(rs, pols, 1)
FindNewest(rs, pols) == ScanBackward(rs, pols, Len(rs))

\* list({p.properties['sceneName']: p for p in [oldest, newest] if p}.values()):
\* a dict keeps one entry per key, at the place of the key's first insertion,
\* holding the value inserted last.
SelectedNoDedup(rs, oldest, newest) ==
    SelectSeq(<<oldest, newest>>, LAMBDA p : p # 0)
Selected(rs, oldest, newest) ==
    LET cand == SelectSeq(<<oldest, newest>>, LAMBDA p : p # 0)
    IN IF Len(cand) = 2 /\ rs[cand[1]].sceneName = rs[cand[2]].sceneName
       THEN <<cand[2]>>
       ELSE cand

\* "if not products_to_download"
NothingSelectedNever(ptd) == FALSE
NothingSelected(ptd) == ptd = <<>>

\* The iterations of "for pol in polarizations: for url in (u for u in urls
\* if u.endswith(f"_{pol}.tif"))" for one product, in order: <<pol, url>>.
RECURSIVE WorkItemsFrom(_, _, _)
WorkItemsFrom(urls, pols, p) ==
    IF p > Len(pols) THEN <<>>
    ELSE LET mine == SelectSeq(urls, LAMBDA u : EndsWith(u, PolSuffix(pols[p])))
         IN [k \in 1..Len(mine) |-> <<pols[p], mine[k]>>]
              \o WorkItemsFrom(urls, pols, p + 1)

WorkItems(product, pols) == WorkItemsFrom(product.additionalUrls, pols, 1)

\* time_tag = 'pre' if product == valid_oldest_scene else 'post'
TimeTag(p, oldest) == IF p = oldest THEN "pre" ELSE "post"

\* os.path.join(pol_dirs[pol], f"{pol.lower()}_{time_tag}.tif")
FinalFilepath(pol, time_tag) == <<"SAR_", pol, "/", Lower(pol), "_", time_tag, ".tif">>

PolSet(pols) == {pols[k] : k \in 1..Len(pols)}

\* A variant with the keys of the default polarizations.
EmptyFilesOfDefaults(pols) == [pol \in PolSet(DEFAULT_POLARIZATIONS) |-> <<>>]

\* downloaded_files = {pol: [] for pol in polarizations}
EmptyFiles(pols) == [pol \in PolSet(pols) |-> <<>>]

InitSar ==
    /\ s_pc = "start"
    /\ polarizations \in PolChoices
    /\ results = <<>>
    /\ valid_oldest_scene = 0
    /\ valid_newest_scene = 0
    /\ products_to_download = <<>>
    /\ s_prod = 1
    /\ s_item = 1
    /\ downloaded_files = <<>>
    /\ download_calls = <<>>
    /\ s_wkt \in WktKinds
    /\ s_effects = {}
    /\ s_failed = <<>>
    /\ s_result = "running"

IdleSar ==
    /\ s_pc = "idle"
    /\ polarizations = DEFAULT_POLARIZATIONS
    /\ results = <<>>
    /\ valid_oldest_scene = 0
    /\ valid_newest_scene = 0
    /\ products_to_download = <<>>
    /\ s_prod = 1
    /\ s_item = 1
    /\ downloaded_files = <<>>
    /\ download_calls = <<>>
    /\ s_wkt = "polygon"
    /\ s_effects = {}
    /\ s_failed = <<>>
    /\ s_result = "running"

SarReturn(res) ==
    /\ s_pc' = "done"
    /\ s_result' = res

\* Lines 97-121: input validation, the credentials check, the .netrc file
\* and the directories.  Any of the first three may end the call with a
\* failure result.  The polarizations are not looked at.
SarPrepare ==
    /\ s_pc = "start"
    /\ \E dates_in_order \in BOOLEAN, outcome \in {"ok", "no credentials", "netrc failed"} :
         IF validate_inputs(s_wkt, dates_in_order)[1] /\ outcome = "ok"
         THEN /\ s_pc' = "search"
              /\ s_effects' = s_effects \cup {"directories"}
              /\ UNCHANGED s_result
         ELSE /\ SarReturn("failure")
              /\ UNCHANGED s_effects
    /\ UNCHANGED <<polarizations, results, valid_oldest_scene, valid_newest_scene,
                   products_to_download, s_prod, s_item, downloaded_files,
                   download_calls, s_wkt, s_failed>>

\* Lines 132-157: asf.search raises (failure result), or answers; an empty
\* answer is a failure result too.
SarSearchFails ==
    /\ s_pc = "search"
    /\ s_effects' = s_effects \cup {"search"}
    /\ SarReturn("failure")
    /\ UNCHANGED <<polarizations, results, valid_oldest_scene, valid_newest_scene,
                   products_to_download, s_prod, s_item, downloaded_files,
                   download_calls, s_wkt, s_failed>>

SarSearch ==
    /\ s_pc = "search"
    /\ \E rs \in Catalogs :
         /\ results' = rs
         /\ IF rs = <<>>
            THEN SarReturn("failure")
            ELSE s_pc' = "select" /\ UNCHANGED s_result
    /\ s_effects' = s_effects \cup {"search"}
    /\ UNCHANGED <<polarizations, valid_oldest_scene, valid_newest_scene,
                   products_to_download, s_prod, s_item, downloaded_files,
                   download_calls, s_wkt, s_failed>>

\* Lines 159-185: the two scans, the de-duplicated product list, the early
\* return when it is empty, and the empty downloaded_files dictionary.
SarSelect ==
    /\ s_pc = "select"
    /\ valid_oldest_scene' = FindOldest(results, polarizations)
    /\ valid_newest_scene' = FindNewest(results, polarizations)
    /\ products_to_download' =
           Selected(results, valid_oldest_scene', valid_newest_scene')
    /\ IF NothingSelected(products_to_download')
       THEN /\ SarReturn("failure")
            /\ UNCHANGED downloaded_files
       ELSE /\ s_pc' = "download"
            /\ downloaded_files' = EmptyFiles(polarizations)
            /\ UNCHANGED s_result
    /\ UNCHANGED <<polarizations, results, s_prod, s_item, download_calls,
                   s_wkt, s_effects, s_failed>>

CurrentProduct == products_to_download[s_prod]
CurrentItems == WorkItems(results[CurrentProduct], polarizations)

\* A variant in which a failure ends the loop over the products.
AbortAfterFailure(prod, products) == Len(products) + 1

\* "except Exception as e: <log>": the loop goes on with the next product.
NextAfterFailure(prod, products) == prod + 1

\* One iteration of the inner loop (lines 198-211): download, rename, record.
\* When the download or the rename raises, the except clause of this
\* product logs it and the outer loop goes on with the next product.
SarDownloadUrl ==
    /\ s_pc = "download"
    /\ s_prod <= Len(products_to_download)
    /\ s_item <= Len(CurrentItems)
    /\ LET pol == CurrentItems[s_item][1]
           url == CurrentItems[s_item][2]
           time_tag == TimeTag(CurrentProduct, valid_oldest_scene)
       IN /\ download_calls' =
                Append(download_calls, <<results[CurrentProduct].sceneName, url>>)
          /\ \E outcome \in {"ok", "download raises", "rename raises"} :
               IF outcome = "ok"
               THEN /\ downloaded_files' =
                         [downloaded_files EXCEPT
                            ![pol] = Append(@, FinalFilepath(pol, time_tag))]
                    /\ s_item' = s_item + 1
                    /\ UNCHANGED <<s_prod, s_failed>>
               ELSE /\ s_prod' = NextAfterFailure(s_prod, products_to_download)
                    /\ s_item' = 1
                    /\ s_failed' = Append(s_failed, results[CurrentProduct].sceneName)
                    /\ UNCHANGED downloaded_files
    /\ UNCHANGED <<s_pc, polarizations, results, valid_oldest_scene,
                   valid_newest_scene, products_to_download, s_wkt, s_effects,
                   s_result>>

\* The inner loops of the current product are exhausted.
SarNextProduct ==
    /\ s_pc = "download"
    /\ s_prod <= Len(products_to_download)
    /\ s_item > Len(CurrentItems)
    /\ s_prod' = s_prod + 1
    /\ s_item' = 1
    /\ UNCHANGED <<s_pc, polarizations, results, valid_oldest_scene,
                   valid_newest_scene, products_to_download, downloaded_files,
                   download_calls, s_wkt, s_effects, s_failed, s_result>>

\* Lines 216-221: the outer loop is over; the success result is returned.
SarFinish ==
    /\ s_pc = "download"
    /\ s_prod > Len(products_to_download)
    /\ SarReturn("success")
    /\ UNCHANGED <<polarizations, results, valid_oldest_scene, valid_newest_scene,
                   products_to_download, s_prod, s_item, downloaded_files,
                   download_calls, s_wkt, s_effects, s_failed>>

NextSar ==
    \/ SarPrepare /\ UNCHANGED <<tileVars, demVars, shapeVars, featVars, calcVars>>
    \/ SarSearchFails /\ UNCHANGED <<tileVars, demVars, shapeVars, featVars, calcVars>>
    \/ SarSearch /\ UNCHANGED <<tileVars, demVars, shapeVars, featVars, calcVars>>
    \/ SarSelect /\ UNCHANGED <<tileVars, demVars, shapeVars, featVars, calcVars>>
    \/ SarDownloadUrl /\ UNCHANGED <<tileVars, demVars, shapeVars, featVars, calcVars>>
    \/ SarNextProduct /\ UNCHANGED <<tileVars, demVars, shapeVars, featVars, calcVars>>
    \/ SarFinish /\ UNCHANGED <<tileVars, demVars, shapeVars, featVars, calcVars>>

(***************************************************************************)
(* IntegratedAnalysisService.run_complete_analysis: the DEM download, the  *)
(* SAR download with the default polarizations, _prepare_file_paths and    *)
(* the predictor, inside one "try ... except Exception".  The returned     *)
(* dictionary is a function from its keys; only the keys 'success' and     *)
(* 'step_failed' are kept.                                                 *)
(***************************************************************************)
NoPath == <<>>

\* str(self.config.DEM_DATA_DIR / "dem_slope.tif")
DemFile == <<"DEM", "/", "dem_slope", ".tif">>

\* The characters of the tokens file names are made of.
Chars(token) ==
    CASE token = "vv" -> <<"v", "v">>
      [] token = "vh" -> <<"v", "h">>
      [] token = "hh" -> <<"h", "h">>
      [] token = "hv" -> <<"h", "v">>
      [] token = "pre" -> <<"p", "r", "e">>
      [] token = "post" -> <<"p", "o", "s", "t">>
      [] token = ".tif" -> <<".", "t", "i", "f">>
      [] token = "dem_slope" -> <<"d", "e", "m", "_", "s", "l", "o", "p", "e">>
      [] OTHER -> <<token>>

RECURSIVE Text(_)
Text(tokens) ==
    IF tokens = <<>> THEN <<>> ELSE Chars(Head(tokens)) \o Text(Tail(tokens))

\* Path(p).name: what follows the last separator.
RECURSIVE PathName(_)
PathName(path) ==
    IF \E k \in 1..Len(path) : path[k] = "/"
    THEN PathName(Tail(path))
    ELSE path

\* "sub in text" for strings.
Contains(text, sub) ==
    \E i \in 1..(Len(text) - Len(sub) + 1) :
        SubSeq(text, i, i + Len(sub) - 1) = sub

\* dict.get(key, default) and d[key] = value.
Get(d, key, default) == IF key \in DOMAIN d THEN d[key] ELSE default
Put(d, key, value) ==
    [k \in DOMAIN d \cup {key} |-> IF k = key THEN value ELSE d[k]]

\* "for f in files: if 'pre' in Path(f).name: file_paths[before] = f
\*                  elif 'post' in Path(f).name: file_paths[after] = f"
RECURSIVE PrePost(_, _, _, _)
PrePost(file_paths, files, before, after) ==
    IF files = <<>> THEN file_paths
    ELSE LET f == Head(files)
             name == Text(PathName(f))
             next == IF Contains(name, Chars("pre")) THEN Put(file_paths, before, f)
                     ELSE IF Contains(name, Chars("post")) THEN Put(file_paths, after, f)
                     ELSE file_paths
         IN PrePost(next, Tail(files), before, after)

\* "for key in [...]: if key not in file_paths: file_paths[key] = None"
RECURSIVE FillMissing(_, _)
FillMissing(file_paths, keys) ==
    IF keys = <<>> THEN file_paths
    ELSE FillMissing(IF Head(keys) \in DOMAIN file_paths THEN file_paths
                     ELSE Put(file_paths, Head(keys), NoPath),
                     Tail(keys))

\* A variant that leaves the missing keys out.
prepare_file_paths_sparse(dem_file, sar_files) ==
    PrePost(PrePost("dem_file" :> dem_file,
                    Get(sar_files, "VV", <<>>), "vv_before", "vv_after"),
            Get(sar_files, "VH", <<>>), "vh_before", "vh_after")

_prepare_file_paths(dem_file, sar_files) ==
    FillMissing(
        PrePost(PrePost("dem_file" :> dem_file,
                        Get(sar_files, "VV", <<>>), "vv_before", "vv_after"),
                Get(sar_files, "VH", <<>>), "vh_before", "vh_after"),
        <<"vv_before", "vv_after", "vh_before", "vh_after">>)

NoResult == <<>>

\* The bounds of the AOI of the run: half a degree north-east of (0, 0).
RunBox == <<0, 0, Half, Half>>

InitRun ==
    /\ r_pc = "start"
    /\ r_calls = <<>>
    /\ r_sar_files = <<>>
    /\ r_file_paths = <<>>
    /\ r_result = NoResult

IdleRun ==
    /\ r_pc = "idle"
    /\ r_calls = <<>>
    /\ r_sar_files = <<>>
    /\ r_file_paths = <<>>
    /\ r_result = NoResult

RunReturn(res) ==
    /\ r_pc' = "done"
    /\ r_result' = res

\* Step 1: self.dem_downloader.download_dem_data(wkt_aoi) is called.
RunCallDem ==
    /\ r_pc = "start"
    /\ r_pc' = "dem"
    /\ r_calls' = Append(r_calls, "download_dem_data")
    /\ UNCHANGED <<r_sar_files, r_file_paths, r_result>>

\* "if not dem_result['success']: return {... 'step_failed': 'dem_download'}"
RunDemFailed ==
    /\ r_pc = "dem" /\ d_pc = "done" /\ d_result = "error"
    /\ RunReturn("success" :> "False" @@ "step_failed" :> "dem_download")
    /\ UNCHANGED <<r_calls, r_sar_files, r_file_paths>>

\* download_dem_data raised: "except Exception as e" of run_complete_analysis
\* returns {'success': False, 'error': ..., 'analysis_timestamp': ...}.
RunDemRaised ==
    /\ r_pc = "dem" /\ d_pc = "done" /\ d_result = "raised"
    /\ RunReturn("success" :> "False")
    /\ UNCHANGED <<r_calls, r_sar_files, r_file_paths>>

\* Step 2: self.sar_downloader.download_sar_data(wkt_aoi, start, end).
RunCallSar ==
    /\ r_pc = "dem" /\ d_pc = "done" /\ d_result = "ok"
    /\ r_pc' = "sar"
    /\ r_calls' = Append(r_calls, "download_sar_data")
    /\ UNCHANGED <<r_sar_files, r_file_paths, r_result>>

\* Lines 66-79: sar_files is {} when the SAR result is a failure; step 3
\* prepares the file paths.
RunPrepare ==
    /\ r_pc = "sar" /\ s_pc = "done"
    /\ r_sar_files' = (IF s_result = "success" THEN downloaded_files ELSE <<>>)
    /\ r_file_paths' = _prepare_file_paths(DemFile, r_sar_files')
    /\ r_pc' = "predict"
    /\ UNCHANGED <<r_calls, r_result>>

\* Steps 4 and 5: self.predictor.make_prediction(file_paths), which returns
\* a dictionary in every case, and the final result.
RunPredict ==
    /\ r_pc = "predict"
    /\ r_calls' = Append(r_calls, "make_prediction")
    /\ RunReturn("success" :> "True")
    /\ UNCHANGED <<r_sar_files, r_file_paths>>

NextRun ==
    \/ RunCallDem /\ UNCHANGED <<tileVars, demVars, sarVars, shapeVars, featVars, numVars, corrVars>>
    \/ r_pc = "dem" /\ DemParseFails /\ UNCHANGED <<tileVars, sarVars, shapeVars, featVars, calcVars>>
    \/ r_pc = "dem" /\ DemResolve /\ UNCHANGED <<tileVars, sarVars, shapeVars, featVars, calcVars>>
    \/ r_pc = "dem" /\ DemHead /\ UNCHANGED <<tileVars, sarVars, shapeVars, featVars, calcVars>>
    \/ r_pc = "dem" /\ DemOpen /\ UNCHANGED <<tileVars, sarVars, shapeVars, featVars, calcVars>>
    \/ r_pc = "dem" /\ DemLoopEnd /\ UNCHANGED <<tileVars, sarVars, shapeVars, featVars, calcVars>>
    \/ r_pc = "dem" /\ DemMerge /\ UNCHANGED <<tileVars, sarVars, shapeVars, featVars, calcVars>>
    \/ r_pc = "dem" /\ DemWrite /\ UNCHANGED <<tileVars, sarVars, shapeVars, featVars, calcVars>>
    \/ RunDemFailed /\ UNCHANGED <<tileVars, demVars, sarVars, shapeVars, featVars, numVars, corrVars>>
    \/ RunDemRaised /\ UNCHANGED <<tileVars, demVars, sarVars, shapeVars, featVars, numVars, corrVars>>
    \/ RunCallSar /\ UNCHANGED <<tileVars, demVars, sarVars, shapeVars, featVars, numVars, corrVars>>
    \/ r_pc = "sar" /\ SarPrepare /\ UNCHANGED <<tileVars, demVars, shapeVars, featVars, calcVars>>
    \/ r_pc = "sar" /\ SarSearchFails /\ UNCHANGED <<tileVars, demVars, shapeVars, featVars, calcVars>>
    \/ r_pc = "sar" /\ SarSearch /\ UNCHANGED <<tileVars, demVars, shapeVars, featVars, calcVars>>
    \/ r_pc = "sar" /\ SarSelect /\ UNCHANGED <<tileVars, demVars, shapeVars, featVars, calcVars>>
    \/ r_pc = "sar" /\ SarDownloadUrl /\ UNCHANGED <<tileVars, demVars, shapeVars, featVars, calcVars>>
    \/ r_pc = "sar" /\ SarNextProduct /\ UNCHANGED <<tileVars, demVars, shapeVars, featVars, calcVars>>
    \/ r_pc = "sar" /\ SarFinish /\ UNCHANGED <<tileVars, demVars, shapeVars, featVars, calcVars>>
    \/ RunPrepare /\ UNCHANGED <<tileVars, demVars, sarVars, shapeVars, featVars, numVars, corrVars>>
    \/ RunPredict /\ UNCHANGED <<tileVars, demVars, sarVars, shapeVars, featVars, numVars, corrVars>>

(***************************************************************************)
(* Arrays.  A 2-D numpy array is its shape and its elements by             *)
(* (row, column), counted from 0.  A pixel read from a raster is an opaque *)
(* value that remembers the raster and the position it was read at.        *)
(***************************************************************************)
Idx(h, w) == (0 .. h - 1) \X (0 .. w - 1)

\* f.read(1): band 1 of the raster called name, of the given shape.
Raster(name, shape) ==
    [shape |-> shape,
     data  |-> [p \in Idx(shape[1], shape[2]) |-> <<name, p[1], p[2]>>]]

\* a[:rows, :cols] for rows, cols >= 0: a stop beyond the end is the end.
Slice(a, rows, cols) ==
    LET h == Min2(rows, a.shape[1])
        w == Min2(cols, a.shape[2])
    IN  [shape |-> <<h, w>>,
         data  |-> [p \in Idx(h, w) |-> a.data[p]]]

\* The last rows and columns instead of the first ones.
SliceEnd(a, rows, cols) ==
    LET h == Min2(rows, a.shape[1])
        w == Min2(cols, a.shape[2])
    IN  [shape |-> <<h, w>>,
         data  |-> [p \in Idx(h, w) |->
                       a.data[<<p[1] + (a.shape[1] - h), p[2] + (a.shape[2] - w)>>]]]

\* A variant that keeps the trailing corner of each array.
match_shapes_trailing(array1, array2) ==
    LET min_height == Min2(array1.shape[1], array2.shape[1])
        min_width  == Min2(array1.shape[2], array2.shape[2])
    IN  <<SliceEnd(array1, min_height, min_width),
          SliceEnd(array2, min_height, min_width)>>

\* A variant that stops one row and one column early.
match_shapes_short(array1, array2) ==
    LET min_height == Max2(0, Min2(array1.shape[1], array2.shape[1]) - 1)
        min_width  == Max2(0, Min2(array1.shape[2], array2.shape[2]) - 1)
    IN  <<Slice(array1, min_height, min_width),
          Slice(array2, min_height, min_width)>>

\* ml_service/app/logic/data_processing.py
match_shapes(array1, array2) ==
    LET min_height == Min2(array1.shape[1], array2.shape[1])
        min_width  == Min2(array1.shape[2], array2.shape[2])
        cropped_array1 == Slice(array1, min_height, min_width)
        cropped_array2 == Slice(array2, min_height, min_width)
    IN  <<cropped_array1, cropped_array2>>

\* DataProcessor.match_shapes
DataProcessor_match_shapes(array1, array2) ==
    LET min_height == Min2(array1.shape[1], array2.shape[1])
        min_width  == Min2(array1.shape[2], array2.shape[2])
        cropped_array1 == Slice(array1, min_height, min_width)
        cropped_array2 == Slice(array2, min_height, min_width)
    IN  <<cropped_array1, cropped_array2>>

\* FinalAssetGenerator.match_shapes
FinalAssetGenerator_match_shapes(arr1, arr2) ==
    LET min_rows == Min2(arr1.shape[1], arr2.shape[1])
        min_cols == Min2(arr1.shape[2], arr2.shape[2])
        arr1_matched == Slice(arr1, min_rows, min_cols)
        arr2_matched == Slice(arr2, min_rows, min_cols)
    IN  <<arr1_matched, arr2_matched>>

(***************************************************************************)
(* match_shapes on its own: every pair of small arrays, each of the three  *)
(* definitions, applied to the arguments and then to its own result.       *)
(***************************************************************************)
ShapeImpls == {"ml_service", "DataProcessor", "FinalAssetGenerator"}

SmallShapes == (0 .. MaxDim) \X (0 .. MaxDim)

ApplyMatchShapes(impl, a, b) ==
    CASE impl = "ml_service"          -> match_shapes(a, b)
      [] impl = "DataProcessor"       -> DataProcessor_match_shapes(a, b)
      [] impl = "FinalAssetGenerator" -> FinalAssetGenerator_match_shapes(a, b)

InitShape ==
    /\ m_impl \in ShapeImpls
    /\ \E s1 \in SmallShapes, s2 \in SmallShapes :
          /\ m_array1 = Raster("a", s1)
          /\ m_array2 = Raster("b", s2)
    /\ m_once = <<>>
    /\ m_twice = <<>>

IdleShape ==
    /\ m_pc = "idle"
    /\ m_impl = "ml_service"
    /\ m_array1 = Raster("a", <<0, 0>>)
    /\ m_array2 = Raster("b", <<0, 0>>)
    /\ m_once = <<>>
    /\ m_twice = <<>>

MatchOnce ==
    /\ m_pc = "input"
    /\ m_once' = ApplyMatchShapes(m_impl, m_array1, m_array2)
    /\ m_pc' = "once"
    /\ UNCHANGED <<m_impl, m_array1, m_array2, m_twice>>

MatchAgain ==
    /\ m_pc = "once"
    /\ m_twice' = ApplyMatchShapes(m_impl, m_once[1], m_once[2])
    /\ m_pc' = "twice"
    /\ UNCHANGED <<m_impl, m_array1, m_array2, m_once>>

NextShape ==
    \/ MatchOnce /\ UNCHANGED <<tileVars, demVars, sarVars, featVars, calcVars>>
    \/ MatchAgain /\ UNCHANGED <<tileVars, demVars, sarVars, featVars, calcVars>>

(***************************************************************************)
(* Numbers.  The value of an array element is one of                       *)
(*   <<"nan">>            NaN                                              *)
(*   <<"inf", s>>         s * infinity, s = 1 or -1                        *)
(*   <<"rat", n, d>>      the rational n/d in lowest terms, d > 0          *)
(*   <<"pow", s, e>>      s * 10^e, s = 1 or -1 (the intensities, down to  *)
(*                        and below 1e-10)                                 *)
(*   <<name, i, j>>       the pixel (i, j) of a raster, a positive finite  *)
(*                        intensity whose value is left open               *)
(*   <<op, x, ...>>       a finite result that has none of the forms above *)
(* Arithmetic is exact: the rounding of float32 and float64 is left out.   *)
(***************************************************************************)
RECURSIVE GCD(_, _)
GCD(a, b) == IF b = 0 THEN a ELSE GCD(b, a % b)

NaN == <<"nan">>

Inf(s) == <<"inf", s>>

Rat(n, d) == LET g == GCD(Abs(n), d) IN <<"rat", n \div g, d \div g>>

Pow(s, e) == <<"pow", s, e>>

Zero == <<"rat", 0, 1>>

\* epsilon, 1e-10
Tiny == <<"pow", 1, -10>>

IsNaN(v) == v[1] = "nan"

IsInf(v) == v[1] = "inf"

IsRat(v) == v[1] = "rat"

IsPow(v) == v[1] = "pow"

IsZero(v) == IsRat(v) /\ v[2] = 0

IsNumber(v) == v[1] \in {"nan", "inf", "rat", "pow"}

\* v > 0.  Every comparison with NaN is false.
Positive(v) ==
    CASE IsNaN(v) -> FALSE
      [] IsInf(v) -> v[2] = 1
      [] IsRat(v) -> v[2] > 0
      [] IsPow(v) -> v[2] = 1
      [] OTHER    -> TRUE

\* v <= 0
NonPositive(v) == ~IsNaN(v) /\ ~Positive(v)

\* v < 1e-10
BelowTiny(v) ==
    CASE IsNaN(v) -> FALSE
      [] IsInf(v) -> v[2] = -1
      [] IsRat(v) -> v[2] <= 0
      [] IsPow(v) -> v[2] = -1 \/ v[3] < Tiny[3]
      [] OTHER    -> FALSE

SignOf(v) == IF Positive(v) THEN 1 ELSE -1

Neg(v) ==
    CASE IsNaN(v) -> NaN
      [] IsInf(v) -> Inf(-v[2])
      [] IsRat(v) -> Rat(-v[2], v[3])
      [] IsPow(v) -> Pow(-v[2], v[3])
      [] OTHER    -> <<"neg", v>>

Add(x, y) ==
    IF IsNaN(x) \/ IsNaN(y) THEN NaN
    ELSE IF IsInf(x) /\ IsInf(y) THEN (IF x[2] = y[2] THEN x ELSE NaN)
    ELSE IF IsInf(x) THEN x
    ELSE IF IsInf(y) THEN y
    ELSE IF IsRat(x) /\ IsRat(y)
         THEN Rat(x[2] * y[3] + y[2] * x[3], x[3] * y[3])
    ELSE IF IsZero(x) THEN y
    ELSE IF IsZero(y) THEN x
    ELSE IF IsPow(x) /\ IsPow(y) /\ x[3] = y[3] /\ x[2] # y[2] THEN Zero
    ELSE <<"add", x, y>>

Sub(x, y) ==
    IF IsNumber(x) /\ IsNumber(y) THEN Add(x, Neg(y)) ELSE <<"sub", x, y>>

Div(x, y) ==
    IF IsNaN(x) \/ IsNaN(y) THEN NaN
    ELSE IF IsZero(y) THEN (IF IsZero(x) THEN NaN ELSE Inf(SignOf(x)))
    ELSE IF IsInf(y) THEN (IF IsInf(x) THEN NaN ELSE Zero)
    ELSE IF IsInf(x) THEN Inf(x[2] * SignOf(y))
    ELSE IF IsZero(x) THEN Zero
    ELSE IF IsRat(x) /\ IsRat(y)
         THEN Rat(x[2] * y[3] * SignOf(y), x[3] * Abs(y[2]))
    ELSE IF IsPow(x) /\ IsPow(y) THEN Pow(x[2] * y[2], x[3] - y[3])
    ELSE <<"div", x, y>>

\* 10 * log10(v)
Decibel(v) ==
    IF IsNaN(v) THEN NaN
    ELSE IF IsInf(v) THEN (IF v[2] = 1 THEN v ELSE NaN)
    ELSE IF IsZero(v) THEN Inf(-1)
    ELSE IF ~Positive(v) THEN NaN
    ELSE IF IsPow(v) THEN Rat(10 * v[3], 1)
    ELSE IF IsRat(v) /\ v[2] = v[3] THEN Zero
    ELSE <<"decibel", v>>

\* The element-wise functions of one value, by name.
UnaryValue(op, v) ==
    CASE op = "decibel" -> Decibel(v)
      [] op = "nonpositive_to_tiny" -> IF NonPositive(v) THEN Tiny ELSE v
      [] op = "max_tiny" ->
            IF IsNaN(v) THEN NaN
            ELSE IF BelowTiny(v) THEN Tiny
            ELSE IF IsNumber(v) THEN v ELSE <<"max", v, Tiny>>
      [] op = "positive_or_tiny" -> IF Positive(v) THEN v ELSE Tiny
      [] op = "zero_to_nan" -> IF IsZero(v) THEN NaN ELSE v
      [] op = "nonfinite_to_zero" -> IF IsNaN(v) \/ IsInf(v) THEN Zero ELSE v
      [] op = "half" ->
            IF IsRat(v) THEN Rat(v[2], 2 * v[3])
            ELSE IF IsNaN(v) \/ IsInf(v) THEN v ELSE <<"half", v>>
      [] op = "neg" -> Neg(v)
      [] op = "abs" ->
            CASE IsRat(v) -> Rat(Abs(v[2]), v[3])
              [] IsPow(v) -> Pow(1, v[3])
              [] IsInf(v) -> Inf(1)
              [] IsNaN(v) -> NaN
              [] OTHER -> <<"abs", v>>
      [] OTHER -> IF IsNaN(v) THEN NaN ELSE <<op, v>>

\* The element-wise operators of two values, by name.
BinaryValue(op, x, y) ==
    CASE op = "sub" -> Sub(x, y)
      [] op = "add" -> Add(x, y)
      [] op = "div" -> Div(x, y)

(***************************************************************************)
(* numpy arithmetic on arrays, element by element.  None and a raised      *)
(* ValueError are arrays of negative shape, so that every local variable   *)
(* has one kind of value.                                                  *)
(***************************************************************************)
NoArray == [shape |-> <<-1, -1>>, data |-> <<>>]

ValueError == [shape |-> <<-2, -2>>, data |-> <<>>]

IsArray(a) == a.shape[1] >= 0

\* The broadcast of two lengths of one axis, -1 when they do not combine.
BroadcastDim(m, n) ==
    IF m = n THEN m
    ELSE IF m = 1 THEN n
    ELSE IF n = 1 THEN m
    ELSE -1

\* The element of operand a that position p of the broadcast result reads.
BroadcastIndex(a, p) ==
    <<IF a.shape[1] = 1 THEN 0 ELSE p[1], IF a.shape[2] = 1 THEN 0 ELSE p[2]>>

\* a op b with numpy's broadcasting; operands of shapes that do not
\* combine raise ValueError, and so does an operand that already raised.
Elementwise(op, a, b) ==
    IF ~IsArray(a) \/ ~IsArray(b) THEN ValueError
    ELSE LET h == BroadcastDim(a.shape[1], b.shape[1])
             w == BroadcastDim(a.shape[2], b.shape[2])
         IN  IF h < 0 \/ w < 0 THEN ValueError
             ELSE [shape |-> <<h, w>>,
                   data  |-> [p \in Idx(h, w) |->
                                 BinaryValue(op, a.data[BroadcastIndex(a, p)],
                                                 b.data[BroadcastIndex(b, p)])]]

\* A function of one array, element by element.
Unary(op, a) ==
    IF ~IsArray(a) THEN a
    ELSE [shape |-> a.shape,
          data  |-> [p \in Idx(a.shape[1], a.shape[2]) |->
                        UnaryValue(op, a.data[p])]]

zeros_like(a) ==
    [shape |-> a.shape,
     data  |-> [p \in Idx(a.shape[1], a.shape[2]) |-> Zero]]

\* a.flatten(): row-major, position k (from 1) is row (k-1) div w.
Flatten(a) ==
    [k \in 1 .. a.shape[1] * a.shape[2] |->
        a.data[<<(k - 1) \div a.shape[2], (k - 1) % a.shape[2]>>]]

\* pd.DataFrame of four named columns; columns of unequal length raise.
NoTable == [columns |-> <<>>, values |-> <<>>]

DataFrame(columns, arrays) ==
    LET values == [i \in 1 .. Len(arrays) |-> Flatten(arrays[i])]
    IN  IF \E i \in 1 .. Len(arrays) : Len(values[i]) # Len(values[1])
        THEN NoTable
        ELSE [columns |-> columns, values |-> values]

Rows(table) == Len(table.values[1])

Columns(table) == {table.columns[i] : i \in 1 .. Len(table.columns)}

\* X.fillna(fill, inplace=True)
fillna(table, fill) ==
    [columns |-> table.columns,
     values  |-> [c \in 1 .. Len(table.values) |->
                    [k \in 1 .. Len(table.values[c]) |->
                        IF IsNaN(table.values[c][k]) THEN fill
                        ELSE table.values[c][k]]]]

\* f(**kwargs) for a function of the given parameter names: the arguments
\* in parameter order, or no arguments at all when Python raises TypeError
\* (a keyword that is no parameter, or a parameter left without value).
CallByKeyword(params, kwargs) ==
    IF DOMAIN kwargs = {params[i] : i \in 1 .. Len(params)}
    THEN [i \in 1 .. Len(params) |-> kwargs[params[i]]]
    ELSE <<>>

(***************************************************************************)
(* ml_service: app/logic/features.py and app/logic/data_processing.py.     *)
(***************************************************************************)
\* intensity_safe[intensity_safe <= 0] = 1e-10, then 10 * np.log10.
to_db(intensity_array) ==
    LET intensity_safe == Unary("nonpositive_to_tiny", intensity_array)
    IN  Unary("decibel", intensity_safe)

calculate_backscatter_change(before_band, after_band) ==
    LET before_db == to_db(before_band)
        after_db  == to_db(after_band)
    IN  Elementwise("sub", after_db, before_db)

\* vv_safe: the copy of vv_band with NaN where it is 0.
vv_safe(vv_band) == Unary("zero_to_nan", vv_band)

calculate_vh_vv_ratio(vh_band, vv_band) ==
    IF vh_band.shape # vv_band.shape THEN ValueError
    ELSE Elementwise("div", vh_band, vv_safe(vv_band))

assemble_feature_table_params ==
    <<"slope", "backscatter_change", "correlation", "ratio_change">>

assemble_feature_table(slope, backscatter_change, correlation, ratio_change) ==
    DataFrame(<<"slope", "backscatter_change", "correlation", "ratio_change">>,
              <<slope, backscatter_change, correlation, ratio_change>>)

(***************************************************************************)
(* backend: ml_analysis/data_processing.py, class DataProcessor.           *)
(***************************************************************************)
DataProcessor_to_db(linear_values) ==
    Unary("decibel", Unary("max_tiny", linear_values))

DataProcessor_calculate_backscatter_change(vv_before, vv_after, vh_before, vh_after) ==
    LET vv_change == Elementwise("sub", DataProcessor_to_db(vv_after),
                                        DataProcessor_to_db(vv_before))
        vh_change == Elementwise("sub", DataProcessor_to_db(vh_after),
                                        DataProcessor_to_db(vh_before))
        backscatter_change == Unary("half", Elementwise("add", vv_change, vh_change))
    IN  IF IsArray(backscatter_change) THEN backscatter_change
        ELSE zeros_like(vv_before)

\* vv_before_linear, vv_after_linear: np.where(vv > 0, vv, 1e-10).
vv_linear(vv) == Unary("positive_or_tiny", vv)

DataProcessor_calculate_vh_vv_ratio_change(vv_before, vv_after, vh_before, vh_after) ==
    LET vv_before_linear == vv_linear(vv_before)
        vv_after_linear  == vv_linear(vv_after)
        ratio_before == Elementwise("div", vh_before, vv_before_linear)
        ratio_after  == Elementwise("div", vh_after, vv_after_linear)
        ratio_change == Elementwise("sub", ratio_after, ratio_before)
    IN  IF IsArray(ratio_change) THEN ratio_change
        ELSE zeros_like(vv_before)

generate_mock_coherence(shape) == Raster("mock_coherence", shape)

DataProcessor_assemble_feature_table(slope, backscatter_change, coherence, ratio_change) ==
    DataFrame(<<"slope", "backscatter_change", "coherence", "ratio_change">>,
              <<slope, backscatter_change, coherence, ratio_change>>)

\* Python's min of shape tuples: the first component decides, then the second.
TupleLess(s, t) == s[1] < t[1] \/ (s[1] = t[1] /\ s[2] < t[2])

TupleMin(shapes) ==
    CHOOSE s \in shapes : \A t \in shapes : s = t \/ TupleLess(s, t)

(***************************************************************************)
(* backend: ml_analysis/generate_final_assets.py, FinalAssetGenerator.     *)
(***************************************************************************)
FinalAssetGenerator_calculate_backscatter_change(vv_before, vv_after) ==
    Elementwise("sub", vv_after, vv_before)

FinalAssetGenerator_calculate_vh_vv_ratio(vh, vv) ==
    Unary("nonfinite_to_zero", Elementwise("div", vh, vv))

\* np.max of an array without elements raises ValueError.
FinalAssetGenerator_calculate_correlation_map(img1, img2) ==
    LET diff == Unary("abs", Elementwise("sub", img1, img2))
    IN  IF IsArray(diff) /\ diff.shape[1] * diff.shape[2] = 0 THEN ValueError
        ELSE IF IsArray(diff)
                /\ \E p \in Idx(diff.shape[1], diff.shape[2]) : IsNaN(diff.data[p])
             THEN [shape |-> diff.shape,
                   data  |-> [p \in Idx(diff.shape[1], diff.shape[2]) |-> NaN]]
             ELSE Unary("one_minus_over_max", diff)

FinalAssetGenerator_assemble_feature_table(slope, backscatter_change, correlation_map, ratio_change) ==
    DataFrame(<<"slope", "backscatter_change", "correlation", "ratio_change">>,
              <<slope, backscatter_change, correlation_map, ratio_change>>)

MockShape == <<100, 100>>

MockName ==
    [vv_before |-> "mock_vv_before", vv_after |-> "mock_vv_after",
     vh_before |-> "mock_vh_before", vh_after |-> "mock_vh_after",
     slope |-> "mock_slope"]

generate_mock_data ==
    [k \in {"vv_before", "vv_after", "vh_before", "vh_after", "slope"} |->
        Raster(MockName[k], MockShape)]

\* ml_service/app/logic/mock_data.py
generate_mock_raster(height, width, seed) == Raster(seed, <<height, width>>)

(***************************************************************************)
(* The pipelines that build a feature table and use it:                    *)
(*   "main"              ml_service/generate_final_assets.py, main();      *)
(*   "process_all_data"  DataProcessor.process_all_data, as called by      *)
(*                       LandslidePredictor.make_prediction, which goes    *)
(*                       on with the table;                                *)
(*   "run_pipeline"      FinalAssetGenerator.run_pipeline;                 *)
(*   "make_prediction"   ml_service/app/logic/predictor.py.                *)
(* The machine starts when the rasters have been read and stops when the   *)
(* result has been reported, or the pipeline has given up.  The risk model *)
(* is external: what is kept of it is which calls received the table.  The *)
(* slope raster, 'dem_file' to process_all_data, is "slope" throughout.    *)
(***************************************************************************)
FeatImpls == {"main", "process_all_data", "run_pipeline", "make_prediction"}

SarNames == {"vv_before", "vv_after", "vh_before", "vh_after"}

RasterNames == SarNames \cup {"slope", "coherence"}

LocalNames == RasterNames \cup {"backscatter_change", "ratio_change"}

NoLocals == [k \in LocalNames |-> NoArray]

\* The shapes a raster may have.
RasterShapes ==
    {s \in (1 .. MaxPix) \X (1 .. MaxPix) : s[1] * s[2] <= MaxPix}

\* The rasters a pipeline reads.
RastersOf(impl) ==
    CASE impl = "main" -> RasterNames
      [] impl = "make_prediction" -> {}
      [] OTHER -> SarNames \cup {"slope"}

\* What the load step leaves behind.  main() reads six rasters.  The two
\* backend pipelines hold None for a file that is missing or unreadable;
\* run_pipeline only asks whether any is None, so one missing file at a
\* time is followed for it.
InitFeat ==
    /\ f_impl \in FeatImpls
    /\ \E shapes \in [RasterNames -> RasterShapes],
          missing \in SUBSET (SarNames \cup {"slope"}) :
          /\ f_impl = "main" => missing = {}
          /\ f_impl = "run_pipeline" /\ missing # {} =>
                /\ Cardinality(missing) = 1
                /\ \A k \in RasterNames : shapes[k] = <<1, 1>>
          /\ f_impl # "main" => shapes["coherence"] = <<1, 1>>
          /\ f_impl = "make_prediction" =>
                /\ missing = {}
                /\ \A k \in RasterNames : shapes[k] = <<1, 1>>
          /\ f_data = [k \in RasterNames |->
                          IF k \in RastersOf(f_impl) \ missing
                          THEN Raster(k, shapes[k]) ELSE NoArray]
    /\ f_loc = NoLocals
    /\ f_handed = <<>>
    /\ f_table = NoTable
    /\ f_result = "running"
    /\ f_model = <<>>
    /\ f_read = {}
    /\ f_end = "running"

\* The same pipelines on rasters of one shape whose first pixel is an
\* open intensity, NaN (no data) or 0.
FillShape == <<1, 2>>

Contents == {"open", "nan", "zero"}

RasterHolding(name, shape, content) ==
    LET r == Raster(name, shape)
    IN  CASE content = "open" -> r
          [] content = "nan"  -> [r EXCEPT !.data[<<0, 0>>] = NaN]
          [] content = "zero" -> [r EXCEPT !.data[<<0, 0>>] = Zero]

InitFill ==
    /\ f_impl \in FeatImpls
    /\ \E contents \in [RasterNames -> Contents], slope_missing \in BOOLEAN :
          /\ slope_missing => f_impl = "process_all_data"
          /\ f_impl # "main" => contents["coherence"] = "open"
          /\ f_impl = "make_prediction" =>
                \A k \in RasterNames : contents[k] = "open"
          /\ f_data = [k \in RasterNames |->
                          IF k \in RastersOf(f_impl) /\ ~(k = "slope" /\ slope_missing)
                          THEN RasterHolding(k, FillShape, contents[k])
                          ELSE NoArray]
    /\ f_loc = NoLocals
    /\ f_handed = <<>>
    /\ f_table = NoTable
    /\ f_result = "running"
    /\ f_model = <<>>
    /\ f_read = {}
    /\ f_end = "running"

IdleFeat ==
    /\ f_pc = "idle"
    /\ f_impl = "main"
    /\ f_data = [k \in RasterNames |-> NoArray]
    /\ f_loc = NoLocals
    /\ f_handed = <<>>
    /\ f_table = NoTable
    /\ f_result = "running"
    /\ f_model = <<>>
    /\ f_read = {}
    /\ f_end = "running"

FeatReturn(res) ==
    /\ f_pc' = "done"
    /\ f_result' = res

\* The call of assemble_feature_table and what comes back: handed are the
\* four arguments, built is the DataFrame (NoTable when pd.DataFrame
\* raises), kept is the table as the pipeline goes on with it.
FeatAssemble(handed, built, kept, onError) ==
    /\ f_handed' = handed
    /\ IF built = NoTable
       THEN /\ f_table' = NoTable
            /\ FeatReturn(onError)
       ELSE /\ f_table' = kept
            /\ f_pc' = "assembled"
            /\ f_result' = "table"
    /\ UNCHANGED <<f_impl, f_data, f_loc, consumerVars>>

\* ---- main(), ml_service/generate_final_assets.py ----
MainMatchShapes ==
    /\ f_pc = "loaded" /\ f_impl = "main"
    /\ LET vv == match_shapes(f_data["vv_before"], f_data["vv_after"])
           vh == match_shapes(f_data["vh_before"], f_data["vh_after"])
           cs == match_shapes(f_data["coherence"], vv[1])
       IN  f_loc' = [f_loc EXCEPT !["vv_before"] = vv[1], !["vv_after"] = vv[2],
                                  !["vh_before"] = vh[1], !["vh_after"] = vh[2],
                                  !["coherence"] = cs[1], !["slope"] = cs[2]]
    /\ f_pc' = "matched"
    /\ UNCHANGED <<f_impl, f_data, f_handed, f_table, f_result, consumerVars>>

MainFeatures ==
    /\ f_pc = "matched" /\ f_impl = "main"
    /\ LET backscatter_change ==
               calculate_backscatter_change(f_loc["vv_before"], f_loc["vv_after"])
           ratio_before == calculate_vh_vv_ratio(f_loc["vh_before"], f_loc["vv_before"])
           ratio_after  == calculate_vh_vv_ratio(f_loc["vh_after"], f_loc["vv_after"])
           ratio_change == Elementwise("sub", ratio_after, ratio_before)
       IN  IF IsArray(backscatter_change) /\ IsArray(ratio_change)
           THEN /\ f_loc' = [f_loc EXCEPT !["backscatter_change"] = backscatter_change,
                                          !["ratio_change"] = ratio_change]
                /\ f_pc' = "features"
                /\ UNCHANGED f_result
           ELSE /\ FeatReturn("raised")
                /\ UNCHANGED f_loc
    /\ UNCHANGED <<f_impl, f_data, f_handed, f_table, consumerVars>>

MainAssemble ==
    /\ f_pc = "features" /\ f_impl = "main"
    /\ FeatAssemble(<<f_loc["slope"], f_loc["backscatter_change"],
                      f_loc["coherence"], f_loc["ratio_change"]>>,
                    assemble_feature_table(f_loc["slope"], f_loc["backscatter_change"],
                                           f_loc["coherence"], f_loc["ratio_change"]),
                    fillna(assemble_feature_table(
                               f_loc["slope"], f_loc["backscatter_change"],
                               f_loc["coherence"], f_loc["ratio_change"]), Zero),
                    "raised")

MainTrain ==
    /\ f_pc = "assembled" /\ f_impl = "main"
    /\ f_model' = <<"fit", "predict_proba">>
    /\ f_pc' = "predicted"
    /\ UNCHANGED <<f_impl, f_data, f_loc, f_handed, f_table, f_result, f_read, f_end>>

\* top_risk_features[name] raises KeyError for a name that is no column.
MainReport ==
    /\ f_pc = "predicted" /\ f_impl = "main"
    /\ f_read' = {"slope", "coherence"}
    /\ f_end' = IF {"slope", "coherence"} \subseteq Columns(f_table)
                THEN "reported" ELSE "raised"
    /\ f_pc' = "done"
    /\ UNCHANGED <<f_impl, f_data, f_loc, f_handed, f_table, f_result, f_model>>

\* ---- DataProcessor.process_all_data ----
ProcNoSlope ==
    /\ f_pc = "loaded" /\ f_impl = "process_all_data"
    /\ ~IsArray(f_data["slope"])
    /\ FeatReturn("none")
    /\ UNCHANGED <<f_impl, f_data, f_loc, f_handed, f_table, consumerVars>>

ProcFeatures ==
    /\ f_pc = "loaded" /\ f_impl = "process_all_data"
    /\ IsArray(f_data["slope"])
    /\ LET slope == f_data["slope"]
           vv_before == f_data["vv_before"]
           vv_after  == f_data["vv_after"]
           vh_before == f_data["vh_before"]
           vh_after  == f_data["vh_after"]
           complete  == \A k \in SarNames : IsArray(f_data[k])
           backscatter_change ==
               IF complete
               THEN DataProcessor_calculate_backscatter_change(
                        vv_before, vv_after, vh_before, vh_after)
               ELSE Raster("mock_backscatter_change", slope.shape)
           ratio_change ==
               IF complete
               THEN DataProcessor_calculate_vh_vv_ratio_change(
                        vv_before, vv_after, vh_before, vh_after)
               ELSE Raster("mock_ratio_change", slope.shape)
           coherence == generate_mock_coherence(slope.shape)
       IN  f_loc' = [f_data EXCEPT !["coherence"] = coherence]
                    @@ [k \in {"backscatter_change", "ratio_change"} |->
                           IF k = "ratio_change" THEN ratio_change
                           ELSE backscatter_change]
    /\ f_pc' = "features"
    /\ UNCHANGED <<f_impl, f_data, f_handed, f_table, f_result, consumerVars>>

ProcMatch ==
    /\ f_pc = "features" /\ f_impl = "process_all_data"
    /\ LET arrays_to_match == {"slope", "backscatter_change", "coherence",
                               "ratio_change"}
           min_shape == TupleMin({f_loc[k].shape : k \in arrays_to_match})
       IN  f_loc' = [k \in LocalNames |->
                        IF k \in arrays_to_match
                        THEN Slice(f_loc[k], min_shape[1], min_shape[2])
                        ELSE f_loc[k]]
    /\ f_pc' = "matched"
    /\ UNCHANGED <<f_impl, f_data, f_handed, f_table, f_result, consumerVars>>

ProcAssemble ==
    /\ f_pc = "matched" /\ f_impl = "process_all_data"
    /\ FeatAssemble(<<f_loc["slope"], f_loc["backscatter_change"],
                      f_loc["coherence"], f_loc["ratio_change"]>>,
                    DataProcessor_assemble_feature_table(
                        f_loc["slope"], f_loc["backscatter_change"],
                        f_loc["coherence"], f_loc["ratio_change"]),
                    DataProcessor_assemble_feature_table(
                        f_loc["slope"], f_loc["backscatter_change"],
                        f_loc["coherence"], f_loc["ratio_change"]),
                    "none")

\* ---- LandslidePredictor.make_prediction, around process_all_data ----
PredictorNoFeatures ==
    /\ f_impl = "process_all_data" /\ f_pc = "done"
    /\ f_result = "none" /\ f_end = "running"
    /\ f_end' = "error_result"
    /\ UNCHANGED <<f_pc, f_impl, f_data, f_loc, f_handed, f_table, f_result,
                   f_model, f_read>>

\* The columns _generate_mock_predictions asks for: 'slope' outright, the
\* other two only when they are columns.
MockPredictionReads(table) ==
    {"slope"} \cup ({"coherence", "backscatter_change"} \cap Columns(table))

PredictorPredict ==
    /\ f_impl = "process_all_data" /\ f_pc = "assembled"
    /\ \E model_loaded \in BOOLEAN, predict_raises \in BOOLEAN :
          /\ ~model_loaded => ~predict_raises
          /\ f_model' = IF model_loaded THEN <<"predict_proba">> ELSE <<>>
          /\ IF model_loaded /\ ~predict_raises
             THEN /\ f_read' = {}
                  /\ f_pc' = "predicted"
                  /\ UNCHANGED f_end
             ELSE /\ f_read' = MockPredictionReads(f_table)
                  /\ IF "slope" \in Columns(f_table)
                     THEN f_pc' = "predicted" /\ UNCHANGED f_end
                     ELSE f_pc' = "done" /\ f_end' = "error_result"
    /\ UNCHANGED <<f_impl, f_data, f_loc, f_handed, f_table, f_result>>

PredictorHypothesis ==
    /\ f_impl = "process_all_data" /\ f_pc = "predicted"
    /\ f_read' = f_read \cup
                 ({"slope", "coherence", "backscatter_change"} \cap Columns(f_table))
    /\ f_end' = "reported"
    /\ f_pc' = "done"
    /\ UNCHANGED <<f_impl, f_data, f_loc, f_handed, f_table, f_result, f_model>>

\* ---- FinalAssetGenerator.run_pipeline ----
GenMatchShapes ==
    /\ f_pc = "loaded" /\ f_impl = "run_pipeline"
    /\ LET data == IF \E k \in SarNames \cup {"slope"} : ~IsArray(f_data[k])
                   THEN generate_mock_data @@ [k \in {"coherence"} |-> NoArray]
                   ELSE f_data
           vv == FinalAssetGenerator_match_shapes(data["vv_before"], data["vv_after"])
           vh == FinalAssetGenerator_match_shapes(data["vh_before"], data["vh_after"])
           sl == FinalAssetGenerator_match_shapes(data["slope"], vv[1])
       IN  /\ f_data' = data
           /\ f_loc' = [f_loc EXCEPT !["vv_before"] = vv[1], !["vv_after"] = vv[2],
                                     !["vh_before"] = vh[1], !["vh_after"] = vh[2],
                                     !["slope"] = sl[1]]
    /\ f_pc' = "matched"
    /\ UNCHANGED <<f_impl, f_handed, f_table, f_result, consumerVars>>

GenFeatures ==
    /\ f_pc = "matched" /\ f_impl = "run_pipeline"
    /\ LET backscatter_change ==
               FinalAssetGenerator_calculate_backscatter_change(
                   f_loc["vv_before"], f_loc["vv_after"])
           ratio_before ==
               FinalAssetGenerator_calculate_vh_vv_ratio(f_loc["vh_before"], f_loc["vv_before"])
           ratio_after ==
               FinalAssetGenerator_calculate_vh_vv_ratio(f_loc["vh_after"], f_loc["vv_after"])
           ratio_change == Elementwise("sub", ratio_after, ratio_before)
           correlation_map ==
               FinalAssetGenerator_calculate_correlation_map(
                   f_loc["vv_before"], f_loc["vv_after"])
       IN  IF IsArray(backscatter_change) /\ IsArray(ratio_change)
              /\ IsArray(correlation_map)
           THEN /\ f_loc' = [f_loc EXCEPT !["backscatter_change"] = backscatter_change,
                                          !["ratio_change"] = ratio_change,
                                          !["coherence"] = correlation_map]
                /\ f_pc' = "features"
                /\ UNCHANGED f_result
           ELSE /\ FeatReturn("raised")
                /\ UNCHANGED f_loc
    /\ UNCHANGED <<f_impl, f_data, f_handed, f_table, consumerVars>>

GenAssemble ==
    /\ f_pc = "features" /\ f_impl = "run_pipeline"
    /\ FeatAssemble(<<f_loc["slope"], f_loc["backscatter_change"],
                      f_loc["coherence"], f_loc["ratio_change"]>>,
                    FinalAssetGenerator_assemble_feature_table(
                        f_loc["slope"], f_loc["backscatter_change"],
                        f_loc["coherence"], f_loc["ratio_change"]),
                    fillna(FinalAssetGenerator_assemble_feature_table(
                               f_loc["slope"], f_loc["backscatter_change"],
                               f_loc["coherence"], f_loc["ratio_change"]), Zero),
                    "raised")

GenTrain ==
    /\ f_pc = "assembled" /\ f_impl = "run_pipeline"
    /\ \E XGBOOST_AVAILABLE \in BOOLEAN :
          f_model' = IF XGBOOST_AVAILABLE THEN <<"fit", "predict_proba">> ELSE <<>>
    /\ f_pc' = "predicted"
    /\ UNCHANGED <<f_impl, f_data, f_loc, f_handed, f_table, f_result, f_read, f_end>>

GenReport ==
    /\ f_pc = "predicted" /\ f_impl = "run_pipeline"
    /\ f_read' = {"slope", "correlation"}
    /\ f_end' = IF {"slope", "correlation"} \subseteq Columns(f_table)
                THEN "reported" ELSE "raised"
    /\ f_pc' = "done"
    /\ UNCHANGED <<f_impl, f_data, f_loc, f_handed, f_table, f_result, f_model>>

\* ---- make_prediction, ml_service/app/logic/predictor.py ----
MlPredict ==
    /\ f_pc = "loaded" /\ f_impl = "make_prediction"
    /\ LET slope_real == generate_mock_raster(100, 100, "seed_303")
           backscatter_change_real == generate_mock_raster(100, 100, "seed_1")
           coherence_real == generate_mock_raster(100, 100, "seed_2")
           ratio_change_real == generate_mock_raster(100, 100, "seed_3")
           kwargs == [k \in {"slope", "backscatter_change", "coherence",
                             "ratio_change"} |->
                        CASE k = "slope" -> slope_real
                          [] k = "backscatter_change" -> backscatter_change_real
                          [] k = "coherence" -> coherence_real
                          [] k = "ratio_change" -> ratio_change_real]
           args == CallByKeyword(assemble_feature_table_params, kwargs)
       IN  IF Len(args) = 0
           THEN /\ FeatReturn("raised")
                /\ f_end' = "raised"
                /\ UNCHANGED <<f_handed, f_table, f_model, f_read>>
           ELSE /\ f_handed' = args
                /\ f_table' = assemble_feature_table(args[1], args[2], args[3], args[4])
                /\ FeatReturn("table")
                /\ f_model' = <<"predict_proba">>
                /\ f_end' = "reported"
                /\ UNCHANGED f_read
    /\ UNCHANGED <<f_impl, f_data, f_loc>>

NextFeat ==
    \/ MainMatchShapes /\ UNCHANGED <<tileVars, demVars, sarVars, shapeVars, calcVars>>
    \/ MainFeatures /\ UNCHANGED <<tileVars, demVars, sarVars, shapeVars, calcVars>>
    \/ MainAssemble /\ UNCHANGED <<tileVars, demVars, sarVars, shapeVars, calcVars>>
    \/ ProcNoSlope /\ UNCHANGED <<tileVars, demVars, sarVars, shapeVars, calcVars>>
    \/ ProcFeatures /\ UNCHANGED <<tileVars, demVars, sarVars, shapeVars, calcVars>>
    \/ ProcMatch /\ UNCHANGED <<tileVars, demVars, sarVars, shapeVars, calcVars>>
    \/ ProcAssemble /\ UNCHANGED <<tileVars, demVars, sarVars, shapeVars, calcVars>>
    \/ GenMatchShapes /\ UNCHANGED <<tileVars, demVars, sarVars, shapeVars, calcVars>>
    \/ GenFeatures /\ UNCHANGED <<tileVars, demVars, sarVars, shapeVars, calcVars>>
    \/ GenAssemble /\ UNCHANGED <<tileVars, demVars, sarVars, shapeVars, calcVars>>
    \/ MainTrain /\ UNCHANGED <<tileVars, demVars, sarVars, shapeVars, calcVars>>
    \/ MainReport /\ UNCHANGED <<tileVars, demVars, sarVars, shapeVars, calcVars>>
    \/ PredictorNoFeatures /\ UNCHANGED <<tileVars, demVars, sarVars, shapeVars, calcVars>>
    \/ PredictorPredict /\ UNCHANGED <<tileVars, demVars, sarVars, shapeVars, calcVars>>
    \/ PredictorHypothesis /\ UNCHANGED <<tileVars, demVars, sarVars, shapeVars, calcVars>>
    \/ GenTrain /\ UNCHANGED <<tileVars, demVars, sarVars, shapeVars, calcVars>>
    \/ GenReport /\ UNCHANGED <<tileVars, demVars, sarVars, shapeVars, calcVars>>
    \/ MlPredict /\ UNCHANGED <<tileVars, demVars, sarVars, shapeVars, calcVars>>

(***************************************************************************)
(* The feature functions of features.py and of DataProcessor, each called  *)
(* on the same four rasters of linear intensity.  The rasters hold finite  *)
(* values on both sides of 0 and of 1e-10.                                 *)
(***************************************************************************)
NumFns == {"to_db", "DataProcessor.to_db", "calculate_backscatter_change",
           "DataProcessor.calculate_backscatter_change",
           "calculate_vh_vv_ratio", "DataProcessor.calculate_vh_vv_ratio_change"}

RatioFns == {"calculate_vh_vv_ratio", "DataProcessor.calculate_vh_vv_ratio_change"}

\* Two pixels side by side: 1e-20, 1e-10, 1, 10, 0 and -1 each occur in
\* both positions.
NumRows == << <<Pow(1, -20), Pow(1, 0)>>, <<Pow(1, -10), Pow(1, 1)>>,
              <<Pow(1, 0), Zero>>,        <<Pow(1, 1), Pow(-1, 0)>>,
              <<Zero, Pow(1, -20)>>,      <<Pow(-1, 0), Pow(1, -10)>> >>

NumArray(k) ==
    [shape |-> <<1, 2>>,
     data  |-> [p \in Idx(1, 2) |-> NumRows[k][p[2] + 1]]]

NumArrays == {NumArray(k) : k \in 1 .. Len(NumRows)}

InitNum ==
    /\ n_in \in [SarNames -> NumArrays]
    /\ n_out = [f \in NumFns |-> NoArray]
    /\ n_divisor = [f \in RatioFns |-> <<>>]

IdleNum ==
    /\ n_in = [k \in SarNames |-> NoArray]
    /\ n_out = [f \in NumFns |-> NoArray]
    /\ n_divisor = [f \in RatioFns |-> <<>>]

Returned(fn, array) ==
    /\ n_out[fn] = NoArray
    /\ n_out' = [n_out EXCEPT ![fn] = array]
    /\ UNCHANGED n_in

CallToDb ==
    /\ Returned("to_db", to_db(n_in["vv_before"]))
    /\ UNCHANGED n_divisor

CallDataProcessorToDb ==
    /\ Returned("DataProcessor.to_db", DataProcessor_to_db(n_in["vv_before"]))
    /\ UNCHANGED n_divisor

CallBackscatterChange ==
    /\ Returned("calculate_backscatter_change",
                calculate_backscatter_change(n_in["vv_before"], n_in["vv_after"]))
    /\ UNCHANGED n_divisor

CallDataProcessorBackscatterChange ==
    /\ Returned("DataProcessor.calculate_backscatter_change",
                DataProcessor_calculate_backscatter_change(
                    n_in["vv_before"], n_in["vv_after"],
                    n_in["vh_before"], n_in["vh_after"]))
    /\ UNCHANGED n_divisor

CallVhVvRatio ==
    /\ Returned("calculate_vh_vv_ratio",
                calculate_vh_vv_ratio(n_in["vh_before"], n_in["vv_before"]))
    /\ n_divisor' = [n_divisor EXCEPT !["calculate_vh_vv_ratio"] =
                        <<vv_safe(n_in["vv_before"])>>]

CallDataProcessorRatioChange ==
    /\ Returned("DataProcessor.calculate_vh_vv_ratio_change",
                DataProcessor_calculate_vh_vv_ratio_change(
                    n_in["vv_before"], n_in["vv_after"],
                    n_in["vh_before"], n_in["vh_after"]))
    /\ n_divisor' = [n_divisor EXCEPT !["DataProcessor.calculate_vh_vv_ratio_change"] =
                        <<vv_linear(n_in["vv_before"]), vv_linear(n_in["vv_after"])>>]

NextNum ==
    \/ CallToDb /\ UNCHANGED <<tileVars, demVars, sarVars, shapeVars, featVars, corrVars, runVars>>
    \/ CallDataProcessorToDb /\ UNCHANGED <<tileVars, demVars, sarVars, shapeVars, featVars, corrVars, runVars>>
    \/ CallBackscatterChange /\ UNCHANGED <<tileVars, demVars, sarVars, shapeVars, featVars, corrVars, runVars>>
    \/ CallDataProcessorBackscatterChange /\ UNCHANGED <<tileVars, demVars, sarVars, shapeVars, featVars, corrVars, runVars>>
    \/ CallVhVvRatio /\ UNCHANGED <<tileVars, demVars, sarVars, shapeVars, featVars, corrVars, runVars>>
    \/ CallDataProcessorRatioChange /\ UNCHANGED <<tileVars, demVars, sarVars, shapeVars, featVars, corrVars, runVars>>

(***************************************************************************)
(* ml_service/app/logic/features.py, calculate_correlation_map.  Pixels    *)
(* are whole numbers, so that every sum and mean below is the exact value  *)
(* numpy computes; a square root that is not rational stays a term.        *)
(***************************************************************************)
One == <<"rat", 1, 1>>

Mul(x, y) ==
    IF IsNaN(x) \/ IsNaN(y) THEN NaN
    ELSE IF IsRat(x) /\ IsRat(y) THEN Rat(x[2] * y[2], x[3] * y[3])
    ELSE <<"mul", x, y>>

\* The largest k in lo .. hi with k * k <= n.
RECURSIVE RootBetween(_, _, _)
RootBetween(n, lo, hi) ==
    IF lo >= hi THEN lo
    ELSE LET mid == (lo + hi + 1) \div 2
         IN  IF mid * mid <= n THEN RootBetween(n, mid, hi)
             ELSE RootBetween(n, lo, mid - 1)

IsSquare(n) == LET k == RootBetween(n, 0, n) IN k * k = n

\* np.sqrt of a value that is not negative.
Sqrt(v) ==
    IF IsNaN(v) THEN NaN
    ELSE IF IsRat(v) /\ IsSquare(v[2]) /\ IsSquare(v[3])
         THEN Rat(RootBetween(v[2], 0, v[2]), RootBetween(v[3], 0, v[3]))
    ELSE <<"sqrt", v>>

RECURSIVE SumOf(_)
SumOf(values) ==
    IF values = <<>> THEN Zero ELSE Add(Head(values), SumOf(Tail(values)))

\* np.pad(a, pad_size, mode='reflect'): the array mirrored at its edges
\* without repeating the edge; an axis of length 1 repeats its one value.
ReflectIndex(k, n) ==
    IF n = 1 THEN 0
    ELSE LET m == k % (2 * (n - 1))
         IN  IF m < n THEN m ELSE 2 * (n - 1) - m

Pad(a, pad_size) ==
    LET h == a.shape[1] + 2 * pad_size
        w == a.shape[2] + 2 * pad_size
    IN  [shape |-> <<h, w>>,
         data  |-> [q \in Idx(h, w) |->
                       a.data[<<ReflectIndex(q[1] - pad_size, a.shape[1]),
                                ReflectIndex(q[2] - pad_size, a.shape[2])>>]]]

\* a[r0:r1, c0:c1] with stops inside the array.
SubArray(a, r0, r1, c0, c1) ==
    [shape |-> <<r1 - r0, c1 - c0>>,
     data  |-> [p \in Idx(r1 - r0, c1 - c0) |-> a.data[<<p[1] + r0, p[2] + c0>>]]]

\* view_as_windows(tile, (window_size, window_size))[i, j], row by row.
Window(tile, i, j, window_size) ==
    [k \in 1 .. window_size * window_size |->
        tile.data[<<i + ((k - 1) \div window_size), j + ((k - 1) % window_size)>>]]

\* A variant without the subtraction of the mean.
Uncentred(window) == window

\* windows - windows.mean(axis=(2, 3), keepdims=True), for one window.
Centred(window) ==
    LET mean == Div(SumOf(window), Rat(Len(window), 1))
    IN  [k \in 1 .. Len(window) |-> Sub(window[k], mean)]

Products(x, y) == [k \in 1 .. Len(x) |-> Mul(x[k], y[k])]

Numerator(before_norm, after_norm) == SumOf(Products(before_norm, after_norm))

Denominator(before_norm, after_norm) ==
    Sqrt(Mul(SumOf(Products(before_norm, before_norm)),
             SumOf(Products(after_norm, after_norm))))

\* A variant that leaves a zero denominator in place.
UnguardedDenominator(denominator) == denominator

\* denominator[denominator == 0] = 1
GuardedDenominator(denominator) ==
    IF IsZero(denominator) THEN One ELSE denominator

\* tile_corr of one tile of the padded rasters.
TileCorrelation(before_tile_padded, after_tile_padded, window_size) ==
    LET h == before_tile_padded.shape[1] - window_size + 1
        w == before_tile_padded.shape[2] - window_size + 1
    IN  [shape |-> <<h, w>>,
         data  |-> [p \in Idx(h, w) |->
            LET before_norm == Centred(Window(before_tile_padded, p[1], p[2], window_size))
                after_norm  == Centred(Window(after_tile_padded, p[1], p[2], window_size))
                numerator   == Numerator(before_norm, after_norm)
                denominator == GuardedDenominator(Denominator(before_norm, after_norm))
            IN  Div(numerator, denominator)]]

\* Whether pixel p lies in the slice [r:r_end, c:c_end].
InSlice(p, r, r_end, c, c_end) ==
    r <= p[1] /\ p[1] < r_end /\ c <= p[2] /\ p[2] < c_end

\* A variant that places every tile at the origin of the map.
AssignedAtOrigin(map, r, c, tile_corr) ==
    [map EXCEPT !.data =
        [p \in DOMAIN map.data |->
            IF p[1] < tile_corr.shape[1] /\ p[2] < tile_corr.shape[2]
            THEN tile_corr.data[p]
            ELSE map.data[p]]]

\* correlation_map[r:r_end, c:c_end] = tile_corr
Assigned(map, r, c, tile_corr) ==
    [map EXCEPT !.data =
        [p \in DOMAIN map.data |->
            IF /\ r <= p[1] /\ p[1] < r + tile_corr.shape[1]
               /\ c <= p[2] /\ p[2] < c + tile_corr.shape[2]
            THEN tile_corr.data[<<p[1] - r, p[2] - c>>]
            ELSE map.data[p]]]

\* range(0, n, step) as a sequence.
RangeStep(n, step) == [k \in 1 .. ((n + step - 1) \div step) |-> (k - 1) * step]

\* The tile origins in the order of the two loops.
TileOrigins(height, width, tile_size) ==
    LET rs == RangeStep(height, tile_size)
        cs == RangeStep(width, tile_size)
    IN  [k \in 1 .. Len(rs) * Len(cs) |->
            <<rs[((k - 1) \div Len(cs)) + 1], cs[((k - 1) % Len(cs)) + 1]>>]

CorrValues == {Zero, One}

CorrArrays(shape) ==
    {[shape |-> shape, data |-> d] : d \in [Idx(shape[1], shape[2]) -> CorrValues]}

InitCorr ==
    /\ c_pc = "input"
    /\ \E shape \in RasterShapes :
          /\ c_before \in CorrArrays(shape)
          /\ c_after \in CorrArrays(shape)
    /\ c_window \in 1 .. MaxWindow
    /\ c_tile_size \in 1 .. MaxTileSize
    /\ c_pad = <<>>
    /\ c_tile = <<>>
    /\ c_out = NoArray
    /\ c_writes = <<>>

IdleCorr ==
    /\ c_pc = "done"
    /\ c_before = NoArray
    /\ c_after = NoArray
    /\ c_window = 0
    /\ c_tile_size = 0
    /\ c_pad = <<>>
    /\ c_tile = <<>>
    /\ c_out = NoArray
    /\ c_writes = <<>>

\* Lines 37-46: the window made odd, the output of zeros, both rasters padded.
CorrPad ==
    /\ c_pc = "input"
    /\ LET window_size == IF c_window % 2 = 0 THEN c_window + 1 ELSE c_window
           pad_size == window_size \div 2
       IN  /\ c_window' = window_size
           /\ c_out' = zeros_like(c_before)
           /\ c_pad' = <<Pad(c_before, pad_size), Pad(c_after, pad_size)>>
           /\ c_tile' = TileOrigins(c_before.shape[1], c_before.shape[2], c_tile_size)
    /\ c_writes' = [p \in Idx(c_before.shape[1], c_before.shape[2]) |-> 0]
    /\ c_pc' = "tiles"
    /\ UNCHANGED <<c_before, c_after, c_tile_size>>

\* Lines 50-81: one pass of the loop body.
CorrTile ==
    /\ c_pc = "tiles"
    /\ c_tile # <<>>
    /\ LET r == Head(c_tile)[1]
           c == Head(c_tile)[2]
           pad_size == c_window \div 2
           r_end == Min2(r + c_tile_size, c_before.shape[1])
           c_end == Min2(c + c_tile_size, c_before.shape[2])
           before_tile_padded ==
               SubArray(c_pad[1], r, r_end + 2 * pad_size, c, c_end + 2 * pad_size)
           after_tile_padded ==
               SubArray(c_pad[2], r, r_end + 2 * pad_size, c, c_end + 2 * pad_size)
           tile_corr == TileCorrelation(before_tile_padded, after_tile_padded, c_window)
       IN  /\ c_out' = Assigned(c_out, r, c, tile_corr)
           /\ c_writes' = [p \in DOMAIN c_writes |->
                              IF InSlice(p, r, r_end, c, c_end)
                              THEN c_writes[p] + 1 ELSE c_writes[p]]
    /\ c_tile' = Tail(c_tile)
    /\ UNCHANGED <<c_pc, c_before, c_after, c_window, c_pad, c_tile_size>>

\* Line 84.
CorrReturn ==
    /\ c_pc = "tiles"
    /\ c_tile = <<>>
    /\ c_pc' = "done"
    /\ UNCHANGED <<c_before, c_after, c_window, c_pad, c_tile_size, c_tile, c_out,
                   c_writes>>

NextCorr ==
    \/ CorrPad /\ UNCHANGED <<tileVars, demVars, sarVars, shapeVars, featVars, numVars, runVars>>
    \/ CorrTile /\ UNCHANGED <<tileVars, demVars, sarVars, shapeVars, featVars, numVars, runVars>>
    \/ CorrReturn /\ UNCHANGED <<tileVars, demVars, sarVars, shapeVars, featVars, numVars, runVars>>

(***************************************************************************)
(* The specifications.                                                     *)
(***************************************************************************)
InitSpecTiles ==
    /\ t_pc = "input"
    /\ InitTiles /\ IdleDem /\ IdleSar /\ IdleShape /\ IdleFeat /\ IdleNum /\ IdleCorr /\ IdleRun

InitSpecDem ==
    /\ d_pc = "start"
    /\ InitDem /\ IdleTiles /\ IdleSar /\ IdleShape /\ IdleFeat /\ IdleNum /\ IdleCorr /\ IdleRun

InitSpecSar ==
    /\ s_pc = "start"
    /\ InitSar /\ IdleTiles /\ IdleDem /\ IdleShape /\ IdleFeat /\ IdleNum /\ IdleCorr /\ IdleRun

InitSpecShape ==
    /\ m_pc = "input"
    /\ InitShape /\ IdleTiles /\ IdleDem /\ IdleSar /\ IdleFeat /\ IdleNum /\ IdleCorr /\ IdleRun

InitSpecFeat ==
    /\ f_pc = "loaded"
    /\ InitFeat /\ IdleTiles /\ IdleDem /\ IdleSar /\ IdleShape /\ IdleNum /\ IdleCorr /\ IdleRun

InitSpecNum ==
    /\ n_divisor = [f \in RatioFns |-> <<>>]
    /\ InitNum /\ IdleTiles /\ IdleDem /\ IdleSar /\ IdleShape /\ IdleFeat /\ IdleCorr /\ IdleRun

InitSpecCorr ==
    /\ c_pc = "input"
    /\ InitCorr /\ IdleTiles /\ IdleDem /\ IdleSar /\ IdleShape /\ IdleFeat /\ IdleNum /\ IdleRun

InitSpecFill ==
    /\ f_pc = "loaded"
    /\ InitFill /\ IdleTiles /\ IdleDem /\ IdleSar /\ IdleShape /\ IdleNum /\ IdleCorr /\ IdleRun

\* run_complete_analysis(wkt_aoi, start_date, end_date): both downloaders
\* are given the same wkt_aoi; the SAR downloader is called without
\* polarizations.
InitSpecRun ==
    /\ r_pc = "start"
    /\ InitRun /\ InitDem /\ InitSar
    /\ d_impl = "backend" /\ d_bounds = RunBox
    /\ s_wkt = d_wkt /\ polarizations = DEFAULT_POLARIZATIONS
    /\ IdleTiles /\ IdleShape /\ IdleFeat /\ IdleNum /\ IdleCorr

SpecTiles == InitSpecTiles /\ [][NextTiles]_vars

SpecDem == InitSpecDem /\ [][NextDem]_vars

SpecSar == InitSpecSar /\ [][NextSar]_vars

SpecShape == InitSpecShape /\ [][NextShape]_vars

SpecFeat == InitSpecFeat /\ [][NextFeat]_vars

SpecFill == InitSpecFill /\ [][NextFeat]_vars

SpecNum == InitSpecNum /\ [][NextNum]_vars

SpecCorr == InitSpecCorr /\ [][NextCorr]_vars

SpecRun == InitSpecRun /\ [][NextRun]_vars

(***************************************************************************)
(* Reading a tile name and a locator back (used by the properties only).   *)
(***************************************************************************)
DigitVal(c) == CHOOSE d \in 0..9 : DigitChar[d + 1] = c
IsDigit(c) == \E d \in 0..9 : DigitChar[d + 1] = c

RECURSIVE ParseNat(_)
ParseNat(ds) ==
    IF Len(ds) = 0 THEN 0
    ELSE 10 * ParseNat(SubSeq(ds, 1, Len(ds) - 1)) + DigitVal(ds[Len(ds)])

\* <<lat, lon>> of a name of the form [NS]dd_[EW]ddd, <<>> for any other text.
ParseTile(name) ==
    IF /\ Len(name) = 8
       /\ name[1] \in {"N", "S"}
       /\ name[4] = "_"
       /\ name[5] \in {"E", "W"}
       /\ \A i \in {2, 3, 6, 7, 8} : IsDigit(name[i])
    THEN LET lat == ParseNat(SubSeq(name, 2, 3))
             lon == ParseNat(SubSeq(name, 6, 8))
         IN <<IF name[1] = "N" THEN lat ELSE -lat,
              IF name[5] = "E" THEN lon ELSE -lon>>
    ELSE <<>>

\* The tile name a locator carries: its first lat and lon parts.
TileOfLocator(url) ==
    IF Len(url) = 20 /\ url[2] = "Copernicus_DSM_COG_10_" /\ url[6] = "_00_"
    THEN SubSeq(url, 3, 5) \o <<"_">> \o SubSeq(url, 7, 10)
    ELSE <<>>

NoDuplicates(seq) == \A i, j \in 1..Len(seq) : seq[i] = seq[j] => i = j

West == t_bounds[1]
South == t_bounds[2]
East == t_bounds[3]
North == t_bounds[4]

OnInteger(x) == x % Scale = 0
TilesResolved == t_pc \in {"resolved", "located"}
ProperBox == West < East /\ South < North

\* The longitude / latitude bands among the resolved tiles.
LonBands == {ParseTile(t_tiles[k])[2] : k \in 1..Len(t_tiles)}
LatBands == {ParseTile(t_tiles[k])[1] : k \in 1..Len(t_tiles)}

(***************************************************************************)
(* C5: for every bounding box whose four edges are integers, with          *)
(* west < east and south < north, the resolver returns exactly             *)
(* (ceil(east)-floor(west)) * (ceil(north)-floor(south)) tile identifiers  *)
(* and no identifier occurs twice.                                         *)
(***************************************************************************)
IntegerAligned ==
    OnInteger(West) /\ OnInteger(South) /\ OnInteger(East) /\ OnInteger(North)

C5_TileCountIntegerAligned ==
    (TilesResolved /\ IntegerAligned /\ ProperBox) =>
        /\ Len(t_tiles) = ((East \div Scale) - (West \div Scale))
                          * ((North \div Scale) - (South \div Scale))
        /\ NoDuplicates(t_tiles)

C5_Witness ==
    /\ TilesResolved /\ IntegerAligned /\ ProperBox
    /\ Len(t_tiles) = 4
    /\ West < 0 /\ East > 0

(***************************************************************************)
(* C6 as stated: an edge of the bounds lying exactly on integer degree k   *)
(* belongs to the lower tile (band k-1) only: band k-1 is among the        *)
(* resolved tiles, and band k is there only if the box itself reaches      *)
(* beyond k (never on account of the edge).  Fails for a west or south     *)
(* edge: floor(k) = k, so the first band is k and band k-1 is not probed.  *)
(***************************************************************************)
C6_EdgeInLowerTileOnly ==
    (TilesResolved /\ ProperBox) =>
        /\ OnInteger(East) =>
             /\ (East \div Scale) - 1 \in LonBands
             /\ (East \div Scale) \notin LonBands
        /\ OnInteger(North) =>
             /\ (North \div Scale) - 1 \in LatBands
             /\ (North \div Scale) \notin LatBands
        /\ OnInteger(West) => (West \div Scale) - 1 \in LonBands
        /\ OnInteger(South) => (South \div Scale) - 1 \in LatBands

(***************************************************************************)
(* C6 amended: an east (north) edge on integer k lies in band k-1 only:    *)
(* band k-1 is resolved and band k is not; a west (south) edge on integer  *)
(* k lies in band k only: band k is resolved and band k-1 is not.  An     *)
(* integer edge never adds a tile on the far side of the edge.             *)
(***************************************************************************)
C6_IntegerEdgeAddsNoOuterTile ==
    (TilesResolved /\ ProperBox) =>
        /\ OnInteger(East) =>
             /\ (East \div Scale) - 1 \in LonBands
             /\ (East \div Scale) \notin LonBands
        /\ OnInteger(North) =>
             /\ (North \div Scale) - 1 \in LatBands
             /\ (North \div Scale) \notin LatBands
        /\ OnInteger(West) =>
             /\ (West \div Scale) \in LonBands
             /\ (West \div Scale) - 1 \notin LonBands
        /\ OnInteger(South) =>
             /\ (South \div Scale) \in LatBands
             /\ (South \div Scale) - 1 \notin LatBands

C6_Witness ==
    /\ TilesResolved /\ ProperBox
    /\ OnInteger(East) /\ OnInteger(South)
    /\ ~OnInteger(West) /\ ~OnInteger(North)
    /\ East < 0 /\ South < 0
    /\ Len(t_tiles) = 2

(***************************************************************************)
(* C7: a tile identifier is a function of its (latitude band, longitude    *)
(* band): N/S and the 2-digit |lat|, "_", E/W and the 3-digit |lon|.  Read *)
(* back, the k-th identifier gives the k-th band pair of the grid, so      *)
(* distinct band pairs have distinct identifiers; each locator carries its *)
(* tile's identifier, so distinct tiles have distinct locators; and the    *)
(* AOI of the end-to-end example resolves to the single tile N23_E072.     *)
(***************************************************************************)
\* The band pairs <<lat, lon>> of the grid covering the box.
GridBands ==
    {<<lat, lon>> : lat \in (South \div Scale)..(-((-North) \div Scale) - 1),
                    lon \in (West \div Scale)..(-((-East) \div Scale) - 1)}

C7_TileIdCanonical ==
    /\ TilesResolved =>
         /\ \A k \in 1..Len(t_tiles) :
              /\ ParseTile(t_tiles[k]) \in GridBands
              /\ t_tiles[k][1] = (IF ParseTile(t_tiles[k])[1] >= 0 THEN "N" ELSE "S")
              /\ t_tiles[k][5] = (IF ParseTile(t_tiles[k])[2] >= 0 THEN "E" ELSE "W")
         /\ \A b \in GridBands : \E k \in 1..Len(t_tiles) : ParseTile(t_tiles[k]) = b
         /\ Len(t_tiles) = Cardinality(GridBands)
         /\ (West \div Scale = (East - 1) \div Scale
               /\ South \div Scale = (North - 1) \div Scale
               /\ ProperBox) => Len(t_tiles) = 1
         /\ t_bounds = ExampleBox =>
              t_tiles = << <<"N", "2", "3", "_", "E", "0", "7", "2">> >>
    /\ t_pc = "located" =>
         /\ Len(t_urls) = Len(t_tiles)
         /\ \A k \in 1..Len(t_urls) : TileOfLocator(t_urls[k]) = t_tiles[k]
         /\ NoDuplicates(t_urls)

C7_Witness ==
    /\ t_pc = "located"
    /\ Len(t_tiles) = 4
    /\ \E k \in 1..4 : t_tiles[k] = <<"S", "3", "5", "_", "W", "1", "2", "1">>
    /\ \E k \in 1..4 : t_tiles[k] = <<"S", "3", "4", "_", "W", "1", "2", "0">>

(***************************************************************************)
(* C1: in download_dem_from_aws and DEMDownloader.download_dem_data every  *)
(* remote raster handle that was opened is closed before the function      *)
(* returns, on every exit path (successful merge, merge/read failure,      *)
(* failure while opening a later tile, failure while writing the output).  *)
(***************************************************************************)
OpenedHandles == {remote_datasets[k] : k \in 1..Len(remote_datasets)}

C1_HandlesReleasedOnEveryExit ==
    d_pc = "done" => OpenedHandles \subseteq d_closed

(***************************************************************************)
(* Scene selection, stated on the catalog answer itself.                   *)
(***************************************************************************)
\* The product has an endpoint whose name ends in _<pol>.tif.
HasEndpointFor(product, pol) ==
    \E u \in 1..Len(product.additionalUrls) :
        LET url == product.additionalUrls[u]
        IN /\ Len(url) >= 3
           /\ url[Len(url) - 2] = "_"
           /\ url[Len(url) - 1] = pol
           /\ url[Len(url)] = ".tif"

\* The positions of the qualifying scenes of the catalog answer.
QualifyingPositions ==
    {i \in 1..Len(results) :
        \A pol \in PolSet(polarizations) : HasEndpointFor(results[i], pol)}

SarSelected == s_pc \in {"download", "done"} /\ results # <<>>

(***************************************************************************)
(* C2: download_sar_data selects as oldest the lowest-index qualifying     *)
(* scene and as newest the highest-index qualifying scene of the result    *)
(* list, whatever non-qualifying scenes lie before, between or after (and  *)
(* none when no scene qualifies).                                          *)
(***************************************************************************)
C2_OldestNewestAreExtremes ==
    SarSelected =>
        IF QualifyingPositions = {}
        THEN valid_oldest_scene = 0 /\ valid_newest_scene = 0
        ELSE /\ valid_oldest_scene \in QualifyingPositions
             /\ valid_newest_scene \in QualifyingPositions
             /\ \A i \in QualifyingPositions :
                    valid_oldest_scene <= i /\ i <= valid_newest_scene

\* The 5-element list in which only the first and the last scene qualify.
C2_Witness ==
    /\ s_pc = "done" /\ s_result = "success"
    /\ Len(results) = 5
    /\ QualifyingPositions = {1, 5}
    /\ valid_oldest_scene = 1 /\ valid_newest_scene = 5
    /\ products_to_download = <<1, 5>>
    /\ \E i \in 2..4 : results[i].additionalUrls # <<>>

(***************************************************************************)
(* C3: when the forward and the backward scan stop on the same scene, the  *)
(* scene appears exactly once in products_to_download and each of its      *)
(* polarization endpoints is downloaded once, not twice.                   *)
(***************************************************************************)
C3_SameSceneOnce ==
    (SarSelected /\ valid_oldest_scene # 0
                 /\ valid_oldest_scene = valid_newest_scene) =>
        /\ products_to_download = <<valid_oldest_scene>>
        /\ NoDuplicates(download_calls)
        /\ \A c \in 1..Len(download_calls) :
              /\ download_calls[c][1] = results[valid_oldest_scene].sceneName
              /\ \E u \in 1..Len(results[valid_oldest_scene].additionalUrls) :
                    results[valid_oldest_scene].additionalUrls[u] = download_calls[c][2]
        /\ \A pol \in PolSet(polarizations) :
              Len(downloaded_files[pol]) <=
                 Cardinality({u \in 1..Len(results[valid_oldest_scene].additionalUrls) :
                     EndsWith(results[valid_oldest_scene].additionalUrls[u],
                              <<"_", pol, ".tif">>)})

C3_Witness ==
    /\ s_pc = "done" /\ s_result = "success"
    /\ Len(results) = 3
    /\ valid_oldest_scene = 2 /\ valid_newest_scene = 2
    /\ Len(download_calls) = 3
    /\ polarizations = <<"VV", "VH">>
    /\ Len(downloaded_files["VV"]) = 2 /\ Len(downloaded_files["VH"]) = 1

(***************************************************************************)
(* C4: when no scene of a non-empty result list qualifies, the oldest and  *)
(* the newest selection are both absent, no download is attempted, and     *)
(* download_sar_data returns (does not raise) a non-success result.        *)
(***************************************************************************)
C4_NoQualifyingScene ==
    (results # <<>> /\ QualifyingPositions = {}) =>
        /\ s_pc \in {"select", "done"}
        /\ valid_oldest_scene = 0 /\ valid_newest_scene = 0
        /\ products_to_download = <<>>
        /\ download_calls = <<>>
        /\ s_pc = "done" => s_result = "failure"

C4_Witness ==
    /\ s_pc = "done" /\ s_result = "failure"
    /\ Len(results) = 3
    /\ \A i \in 1..3 : results[i].additionalUrls # <<>>
    /\ QualifyingPositions = {}
    /\ download_calls = <<>>

(***************************************************************************)
(* match_shapes.                                                           *)
(***************************************************************************)
MinHeight == Min2(m_array1.shape[1], m_array2.shape[1])
MinWidth == Min2(m_array1.shape[2], m_array2.shape[2])

\* C8: match_shapes returns the origin-anchored crops a[0:h, 0:w] and
\* b[0:h, 0:w] with h the smaller height and w the smaller width: both
\* results have shape (h, w), and the element at (i, j) of each result is
\* the element at (i, j) of the corresponding argument.
C8_OriginAnchoredCrop ==
    m_pc \in {"once", "twice"} =>
        /\ m_once[1].shape = <<MinHeight, MinWidth>>
        /\ m_once[2].shape = <<MinHeight, MinWidth>>
        /\ DOMAIN m_once[1].data = Idx(MinHeight, MinWidth)
        /\ DOMAIN m_once[2].data = Idx(MinHeight, MinWidth)
        /\ \A p \in Idx(MinHeight, MinWidth) :
              /\ m_once[1].data[p] = m_array1.data[p]
              /\ m_once[2].data[p] = m_array2.data[p]

\* A 2x2 array matched against a 1x2 array: the first loses its second row
\* and keeps (0, 0) and (0, 1) where they were.
C8_Witness ==
    /\ m_pc = "once"
    /\ m_array1.shape = <<2, 2>>
    /\ m_array2.shape = <<1, 2>>
    /\ m_once[1].shape = <<1, 2>>
    /\ m_once[1].data[<<0, 1>>] = <<"a", 0, 1>>
    /\ m_once[2] = m_array2

\* C9: match_shapes is idempotent: applied to its own result it returns
\* that result unchanged.
C9_MatchShapesIdempotent ==
    m_pc = "twice" => m_twice = m_once

\* A 2x1 array against a 1x2 array: both are cut to 1x1 by the first
\* application, and the second application has been made.
C9_Witness ==
    /\ m_pc = "twice"
    /\ m_array1.shape = <<2, 1>>
    /\ m_array2.shape = <<1, 2>>
    /\ m_once[1].shape = <<1, 1>>
    /\ m_twice[2].shape = <<1, 1>>

(***************************************************************************)
(* The feature-table pipelines.                                            *)
(***************************************************************************)
\* The rasters the pipeline worked from.
InputRasters == {k \in RasterNames : IsArray(f_data[k])}

InputMinHeight ==
    CHOOSE h \in {f_data[k].shape[1] : k \in InputRasters} :
        \A k \in InputRasters : h <= f_data[k].shape[1]

InputMinWidth ==
    CHOOSE w \in {f_data[k].shape[2] : k \in InputRasters} :
        \A k \in InputRasters : w <= f_data[k].shape[2]

Assembled == Len(f_handed) = 4

\* C10: whatever the shapes of the input rasters, the four arrays handed to
\* assemble_feature_table all have one shape (h, w), the component-wise
\* minimum of the input shapes, and the feature table that results has
\* exactly h * w rows.
C10_AssembledArraysShareMinShape ==
    Assembled =>
        /\ \A i \in 1 .. 4 : f_handed[i].shape = <<InputMinHeight, InputMinWidth>>
        /\ f_result = "table"
        /\ Rows(f_table) = InputMinHeight * InputMinWidth

\* The state in which the backscatter change and the VH/VV ratios are
\* about to be computed, and the variables the computation reads.
AtArithmetic ==
    \/ f_impl \in {"main", "run_pipeline"} /\ f_pc = "matched"
    \/ /\ f_impl = "process_all_data" /\ f_pc = "loaded"
       /\ \A k \in SarNames \cup {"slope"} : IsArray(f_data[k])

Operands == IF f_impl = "process_all_data" THEN f_data ELSE f_loc

\* before/after of one polarization, VH with VV of one acquisition.
OperandPairs ==
    {<<"vv_before", "vv_after">>, <<"vh_before", "vh_after">>,
     <<"vh_before", "vv_before">>, <<"vh_after", "vv_after">>}

\* C11: for any input shapes, when the backscatter change and the VH/VV
\* ratio are computed, the two operands of each pair (before and after of
\* one polarization, VH and VV of one acquisition) have the same shape.
C11_OperandsReconciledBeforeArithmetic ==
    AtArithmetic =>
        \A pr \in OperandPairs : Operands[pr[1]].shape = Operands[pr[2]].shape

\* The columns the feature table is specified to have.
TableColumns == <<"slope", "backscatter_change", "correlation", "ratio_change">>

TableBuilt == Assembled /\ f_result = "table"

\* Row i*w + j of column c holds element (i, j) of the c-th array (0 where
\* that element is NaN and the pipeline has filled the table).
RowMajor ==
    \A c \in 1 .. 4 :
        \A p \in Idx(f_handed[c].shape[1], f_handed[c].shape[2]) :
            LET v == f_handed[c].data[p]
                cell == f_table.values[c][p[1] * f_handed[c].shape[2] + p[2] + 1]
            IN  IF IsNaN(v) THEN IsNaN(cell) \/ cell = Zero ELSE cell = v

\* The first column holds the pixels of the slope raster.
SlopeColumnIsSlopeRaster ==
    \A p \in Idx(f_handed[1].shape[1], f_handed[1].shape[2]) :
        f_handed[1].data[p] = f_data["slope"].data[p]

\* C12: the feature table has exactly the four columns slope,
\* backscatter_change, correlation, ratio_change; row i*w + j holds in each
\* column the value at (i, j) of the corresponding array, the slope column
\* holding the slope raster; and producers and consumers of the table use
\* the same column names (every call of assemble_feature_table binds its
\* arguments, every column a consumer asks for is a column of the table).
C12_TableLayoutAndColumnNames ==
    /\ TableBuilt =>
          /\ f_table.columns = TableColumns
          /\ RowMajor
          /\ SlopeColumnIsSlopeRaster
          /\ f_read \subseteq Columns(f_table)
    /\ f_impl = "make_prediction" => f_result # "raised"

TableHasNaN ==
    \E c \in 1 .. Len(f_table.values) :
        \E k \in 1 .. Len(f_table.values[c]) : IsNaN(f_table.values[c][k])

\* C13: whenever a feature table has been handed to the risk model (fit or
\* predict_proba), the table holds no NaN.
C13_NoNaNHandedToModel ==
    f_model # <<>> => ~TableHasNaN

\* Equality of two values, safe for values of different forms.
TermHeads == {"add", "sub", "div", "neg", "max", "half", "abs", "decibel",
              "mul", "sqrt"}

RECURSIVE SameValue(_, _)
SameValue(x, y) ==
    /\ x[1] = y[1]
    /\ Len(x) = Len(y)
    /\ IF x[1] \in TermHeads
       THEN \A k \in 2 .. Len(x) : SameValue(x[k], y[k])
       ELSE x = y

SameArray(a, b) ==
    /\ a.shape = b.shape
    /\ \A p \in DOMAIN a.data : SameValue(a.data[p], b.data[p])

Called(fn) == n_out[fn] # NoArray

Pixels == Idx(1, 2)

\* The divisor d that stands for the VV value v is acceptable: where v is
\* non-positive d is 1e-10 or NaN.
GuardedDivisor(v, d) ==
    NonPositive(v) => IsNaN(d) \/ SameValue(d, Tiny)

DivisorsGuarded(fn, vv_names) ==
    Called(fn) =>
        \A k \in 1 .. Len(vv_names) : \A p \in Pixels :
            GuardedDivisor(n_in[vv_names[k]].data[p], n_divisor[fn][k].data[p])

NoInfinity(fn) ==
    Called(fn) => \A p \in Pixels : ~IsInf(n_out[fn].data[p])

\* C14: in both VH/VV ratio functions, wherever VV is zero or negative the
\* divisor is 1e-10 or NaN, never the raw value, and the ratio holds no
\* infinity.
C14_NonPositiveDenominatorReplaced ==
    /\ DivisorsGuarded("calculate_vh_vv_ratio", <<"vv_before">>)
    /\ DivisorsGuarded("DataProcessor.calculate_vh_vv_ratio_change",
                       <<"vv_before", "vv_after">>)
    /\ NoInfinity("calculate_vh_vv_ratio")
    /\ NoInfinity("DataProcessor.calculate_vh_vv_ratio_change")

\* 10 * log10(max(x, 1e-10))
ClampedDecibel(x) == Decibel(IF BelowTiny(x) THEN Tiny ELSE x)

IsClampedDecibel(fn) ==
    Called(fn) =>
        \A p \in Pixels :
            SameValue(n_out[fn].data[p], ClampedDecibel(n_in["vv_before"].data[p]))

ToDbAgree ==
    Called("to_db") /\ Called("DataProcessor.to_db") =>
        SameArray(n_out["to_db"], n_out["DataProcessor.to_db"])

\* C15: both to_db functions return 10 * log10(max(x, 1e-10)) for every x,
\* and so return the same value.
C15_ToDbClampsAtEpsilon ==
    /\ IsClampedDecibel("to_db")
    /\ IsClampedDecibel("DataProcessor.to_db")
    /\ ToDbAgree

\* after_db - before_db of one polarization, with the to_db of features.py.
AfterMinusBefore ==
    Called("calculate_backscatter_change") =>
        /\ SameArray(n_out["calculate_backscatter_change"],
                     Elementwise("sub", to_db(n_in["vv_after"]), to_db(n_in["vv_before"])))
        /\ SameArray(calculate_backscatter_change(n_in["vv_after"], n_in["vv_before"]),
                     Unary("neg", n_out["calculate_backscatter_change"]))
        /\ n_in["vv_before"] = n_in["vv_after"] =>
              \A p \in Pixels : IsZero(n_out["calculate_backscatter_change"].data[p])

\* Twice the result is the VV change plus the VH change, in the dB of dB.
IsAverageOfPolarizations(fn, dB(_)) ==
    Called(fn) =>
        LET vv_change == Elementwise("sub", dB(n_in["vv_after"]), dB(n_in["vv_before"]))
            vh_change == Elementwise("sub", dB(n_in["vh_after"]), dB(n_in["vh_before"]))
        IN  SameArray(Elementwise("add", n_out[fn], n_out[fn]),
                      Elementwise("add", vv_change, vh_change))

\* C16: the backscatter change is after_db - before_db per polarization
\* (the swapped call is its negation, equal rasters give 0), and with the
\* VV and the VH pair both present it is the average of the two changes.
C16_BackscatterChangeAveraged ==
    /\ AfterMinusBefore
    /\ IsAverageOfPolarizations("DataProcessor.calculate_backscatter_change",
                                DataProcessor_to_db)
    /\ IsAverageOfPolarizations("calculate_backscatter_change", to_db)

\* The pixels whose tile has been computed.
TileOf(p) == <<(p[1] \div c_tile_size) * c_tile_size, (p[2] \div c_tile_size) * c_tile_size>>

Written ==
    IF c_pc = "input" \/ ~IsArray(c_out) THEN {}
    ELSE {p \in DOMAIN c_out.data : \A k \in 1 .. Len(c_tile) : c_tile[k] # TileOf(p)}

\* The window of pixel p, read from the whole padded raster.
WindowOf(padded, p) == Window(padded, p[1], p[2], c_window)

DenominatorAt(p) ==
    Denominator(Centred(WindowOf(c_pad[1], p)), Centred(WindowOf(c_pad[2], p)))

\* C17: every window of calculate_correlation_map whose denominator
\* sqrt(sum(a^2) * sum(b^2)) is zero gives exactly 0, never NaN or infinity.
C17_ZeroDenominatorGivesZero ==
    \A p \in Written : IsZero(DenominatorAt(p)) => IsZero(c_out.data[p])

\* A finished map of more than one tile with a zero denominator at a pixel
\* where one of the two windows is not constant.
C17_Witness ==
    /\ c_pc = "done"
    /\ Len(TileOrigins(c_before.shape[1], c_before.shape[2], c_tile_size)) > 1
    /\ \E p \in Written :
          /\ IsZero(DenominatorAt(p))
          /\ \E k \in 1 .. c_window * c_window :
                WindowOf(c_pad[1], p)[k] # WindowOf(c_pad[1], p)[1]
          /\ IsZero(c_out.data[p])

IsConstant(window) == \A k \in 1 .. Len(window) : window[k] = window[1]

\* C18: calculate_correlation_map(a, a) is 1 at every pixel whose window
\* is not constant and 0 at every pixel whose window is constant.
C18_SelfCorrelationIsOne ==
    c_before = c_after =>
        \A p \in Written :
            SameValue(c_out.data[p],
                      IF IsConstant(WindowOf(c_pad[1], p)) THEN Zero ELSE One)

\* A finished self-correlation map that holds both a 1 and a 0.
C18_Witness ==
    /\ c_pc = "done"
    /\ c_before = c_after
    /\ c_window > 1
    /\ \E p \in Written : ~IsConstant(WindowOf(c_pad[1], p)) /\ c_out.data[p] = One
    /\ \E p \in Written : IsConstant(WindowOf(c_pad[1], p)) /\ c_out.data[p] = Zero

\* The positions in remote_datasets of the sources with data at pixel p.
SourcesAt(p) == {k \in 1 .. Len(remote_datasets) : p \in d_valid[k]}

Merged == d_merged # <<>>

FirstAt(p) == CHOOSE k \in SourcesAt(p) : \A j \in SourcesAt(p) : k <= j

LastAt(p) == CHOOSE k \in SourcesAt(p) : \A j \in SourcesAt(p) : k >= j

C20_TileFailureOnlySkipsTile ==
    [][(d_pc \in {"probe", "open"} /\ remote_datasets # <<>>) => (d_pc' # "done")]_vars

(***************************************************************************)
(* The download loop of download_sar_data.                                 *)
(***************************************************************************)
Attempted(scene, url) ==
    \E c \in 1..Len(download_calls) : download_calls[c] = <<scene, url>>

Failed(scene) == \E k \in 1..Len(s_failed) : s_failed[k] = scene

SarSucceeded == s_pc = "done" /\ s_result = "success"

\* C21: when two distinct scenes are selected, a download or rename failure
\* while one scene is processed does not keep the other from being
\* processed: the first endpoint of each scene is attempted, and every
\* endpoint of a scene that did not itself fail is attempted.
C21_FailureDoesNotStopOtherScene ==
    (SarSucceeded /\ Len(products_to_download) = 2) =>
        \A k \in 1..2 :
            LET product == results[products_to_download[k]]
                items == WorkItems(product, polarizations)
            IN /\ items # <<>>
               /\ Attempted(product.sceneName, items[1][2])
               /\ ~Failed(product.sceneName) =>
                     \A n \in 1..Len(items) :
                         Attempted(product.sceneName, items[n][2])

\* The first scene fails on its first endpoint; the three endpoints of the
\* second scene are all attempted.
C21_Witness ==
    /\ SarSucceeded
    /\ Len(products_to_download) = 2
    /\ s_failed = <<results[products_to_download[1]].sceneName>>
    /\ Len(download_calls) = 4
    /\ download_calls[1][1] = results[products_to_download[1]].sceneName
    /\ \A c \in 2..4 :
          download_calls[c][1] = results[products_to_download[2]].sceneName

\* C22: a request whose polarization list holds a value outside
\* {VV, VH, HH, HV} is rejected with an error result before any directory
\* is created, any catalog search is issued and any download is attempted.
ValidPolarizations == {"VV", "VH", "HH", "HV"}

C22_InvalidPolarizationRejectedFirst ==
    ~(PolSet(polarizations) \subseteq ValidPolarizations) =>
        /\ s_effects = {}
        /\ download_calls = <<>>
        /\ s_pc \in {"start", "done"}
        /\ s_pc = "done" => s_result = "failure"

\* C28: after the two scans the oldest selection is absent exactly when the
\* newest is absent, and when both are present the oldest is at or before
\* the newest in the result list.
C28_OldestAtOrBeforeNewest ==
    SarSelected =>
        /\ valid_oldest_scene = 0 <=> valid_newest_scene = 0
        /\ valid_oldest_scene # 0 =>
              /\ valid_oldest_scene \in 1..Len(results)
              /\ valid_newest_scene \in 1..Len(results)
              /\ valid_oldest_scene <= valid_newest_scene

\* Two different scenes selected, with scenes that do not qualify before,
\* between and after them.
C28_Witness ==
    /\ SarSelected
    /\ Len(results) = 5
    /\ valid_oldest_scene = 2 /\ valid_newest_scene = 4

\* C30: once a scene has been selected, download_sar_data returns
\* success = True with a downloaded_files entry for every requested
\* polarization, whatever happens during the downloads; a scene whose
\* download raises contributes only the files completed before the failure.
FilesOfScene(k) ==
    LET scene == results[products_to_download[k]].sceneName
    IN Cardinality({c \in 1..Len(download_calls) : download_calls[c][1] = scene})
          - (IF Failed(scene) THEN 1 ELSE 0)

RECURSIVE CompletedFiles(_)
CompletedFiles(k) == IF k = 0 THEN 0 ELSE FilesOfScene(k) + CompletedFiles(k - 1)

RECURSIVE RecordedFiles(_)
RecordedFiles(pols) ==
    IF pols = {} THEN 0
    ELSE LET pol == CHOOSE x \in pols : TRUE
         IN Len(downloaded_files[pol]) + RecordedFiles(pols \ {pol})

C30_SuccessOnceSelected ==
    /\ (s_pc = "download") => (products_to_download # <<>> /\ s_result = "running")
    /\ (s_pc = "done" /\ products_to_download # <<>>) =>
          /\ s_result = "success"
          /\ DOMAIN downloaded_files = PolSet(polarizations)
          /\ RecordedFiles(PolSet(polarizations)) =
                CompletedFiles(Len(products_to_download))

\* Both selected scenes fail on their first endpoint: success with an empty
\* list for every polarization.
C30_Witness ==
    /\ SarSucceeded
    /\ Len(products_to_download) = 2
    /\ Len(s_failed) = 2
    /\ polarizations = DEFAULT_POLARIZATIONS
    /\ \A pol \in PolSet(polarizations) : downloaded_files[pol] = <<>>

(***************************************************************************)
(* run_complete_analysis.                                                  *)
(***************************************************************************)
RunReturned == r_pc = "done"

Invoked(component) == \E k \in 1..Len(r_calls) : r_calls[k] = component

\* C23: an AOI text that does not parse as a polygon, or that parses to a
\* self-intersecting or zero-area polygon, is rejected with a geometry
\* error before any tile is probed or opened and before any scene search;
\* run_complete_analysis never reports success for such an AOI.
C23_BadAoiRejectedFirst ==
    (r_pc # "idle" /\ d_wkt # "polygon") =>
        /\ d_pc \in {"start", "done"}
        /\ d_pc = "done" => d_result = "error"
        /\ d_tiles = <<>> /\ remote_datasets = <<>>
        /\ "search" \notin s_effects
        /\ RunReturned => r_result["success"] = "False"

\* C27: the stages run in the order DEM, SAR, file paths, prediction; when
\* the DEM stage fails neither the SAR downloader nor the predictor is
\* invoked and the result names the step 'dem_download'; when the SAR stage
\* fails the prediction still runs, with an empty SAR file set; the call
\* always returns a result with a 'success' flag.
StageOrder == <<"download_dem_data", "download_sar_data", "make_prediction">>

C27_StagesInOrder ==
    /\ Len(r_calls) <= 3 /\ r_calls = SubSeq(StageOrder, 1, Len(r_calls))
    /\ (r_pc = "predict" \/ Invoked("make_prediction")) =>
          DOMAIN r_file_paths # {}
    /\ (RunReturned /\ d_result # "ok") =>
          /\ r_calls = <<"download_dem_data">>
          /\ r_result["success"] = "False"
          /\ "step_failed" \in DOMAIN r_result
          /\ r_result["step_failed"] = "dem_download"
    /\ (RunReturned /\ d_result = "ok" /\ s_result = "failure") =>
          /\ Invoked("make_prediction")
          /\ DOMAIN r_sar_files = {}
    /\ RunReturned => "success" \in DOMAIN r_result

\* C29: when exactly one scene is selected it is tagged 'pre': every file
\* recorded is named <pol>_pre.tif, none <pol>_post.tif, and
\* _prepare_file_paths yields vv_after = None and vh_after = None; the
\* five keys are always returned.
FilePathKeys == {"dem_file", "vv_before", "vv_after", "vh_before", "vh_after"}

Prepared == r_pc \in {"predict", "done"} /\ Invoked("download_sar_data")

C29_SingleSceneIsPre ==
    /\ Prepared => DOMAIN r_file_paths = FilePathKeys
    /\ (s_pc \in {"download", "done"} /\ Len(products_to_download) = 1) =>
          \A pol \in PolSet(polarizations) :
              \A k \in 1..Len(downloaded_files[pol]) :
                  PathName(downloaded_files[pol][k]) =
                      <<Lower(pol), "_", "pre", ".tif">>
    /\ (Prepared /\ Len(products_to_download) = 1) =>
          /\ r_file_paths["vv_after"] = NoPath
          /\ r_file_paths["vh_after"] = NoPath
          /\ r_file_paths["dem_file"] = DemFile

\* One scene, both of its files downloaded and handed on as the "before"
\* pair.
C29_Witness ==
    /\ RunReturned /\ r_result["success"] = "True"
    /\ Len(products_to_download) = 1
    /\ valid_oldest_scene = valid_newest_scene
    /\ r_file_paths["vv_before"] = FinalFilepath("VV", "pre")
    /\ r_file_paths["vh_before"] = FinalFilepath("VH", "pre")
    /\ r_file_paths["vv_after"] = NoPath

(***************************************************************************)
(* Failures inside the feature pipeline.                                   *)
(***************************************************************************)
\* A raster the pipeline reads is not there: the read failed.
ReadFailed ==
    /\ f_pc = "loaded"
    /\ f_impl \in {"process_all_data", "run_pipeline"}
    /\ \E k \in RastersOf(f_impl) : ~IsArray(f_data[k])

\* C24: when the read of a named input raster has failed, feature
\* processing stops at once with a failure: no substitute data takes the
\* place of the raster and no feature table is produced.
C24_ReadFailureStopsProcessing ==
    [][ReadFailed =>
          (f_pc' = "done" /\ f_table' = NoTable /\ f_data' = f_data)]_vars

\* process_all_data has called the two feature computations on the four
\* SAR rasters it read.
FeaturesComputed ==
    /\ f_impl = "process_all_data" /\ f_pc = "features"
    /\ \A k \in SarNames : IsArray(f_data[k])

MismatchedOperands ==
    \E pr \in OperandPairs : f_data[pr[1]].shape # f_data[pr[2]].shape

\* C25: when the operands of a feature computation (backscatter change,
\* VH/VV ratio) differ in shape, the computation raises a shape-mismatch
\* error; it returns no result array (zeros, a broadcast product).
C25_MismatchedOperandsRaise ==
    (FeaturesComputed /\ MismatchedOperands) =>
        /\ ~IsArray(f_loc["backscatter_change"])
        /\ ~IsArray(f_loc["ratio_change"])

(***************************************************************************)
(* The tiles of calculate_correlation_map.                                 *)
(***************************************************************************)
\* The correlation of the two windows anchored at pixel p of the padded
\* rasters, computed without any tile.
PixelCorrelation(p) ==
    Div(Numerator(Centred(WindowOf(c_pad[1], p)), Centred(WindowOf(c_pad[2], p))),
        GuardedDenominator(DenominatorAt(p)))

AllTiles == TileOrigins(c_before.shape[1], c_before.shape[2], c_tile_size)

\* The shape of the grid of windows of the tile at <<r, c>> and the shape
\* of its output slice.
WindowGridShape(r, c) ==
    LET r_end == Min2(r + c_tile_size, c_before.shape[1])
        c_end == Min2(c + c_tile_size, c_before.shape[2])
        pad_size == c_window \div 2
    IN TileCorrelation(
           SubArray(c_pad[1], r, r_end + 2 * pad_size, c, c_end + 2 * pad_size),
           SubArray(c_pad[2], r, r_end + 2 * pad_size, c, c_end + 2 * pad_size),
           c_window).shape

SliceShape(r, c) ==
    <<Min2(r + c_tile_size, c_before.shape[1]) - r,
      Min2(c + c_tile_size, c_before.shape[2]) - c>>

\* C26: the output slices of the tiles are pairwise disjoint and cover the
\* output, and the grid of windows of each tile has the shape of its slice:
\* every pixel is written exactly once, from the window of the padded
\* inputs anchored at that pixel, whatever the tile size.
C26_EveryPixelWrittenOnce ==
    /\ c_pc = "tiles" =>
          /\ \A p \in DOMAIN c_writes : c_writes[p] = (IF p \in Written THEN 1 ELSE 0)
          /\ \A k \in 1 .. Len(AllTiles) :
                WindowGridShape(AllTiles[k][1], AllTiles[k][2])
                    = SliceShape(AllTiles[k][1], AllTiles[k][2])
          /\ \A p \in Written : SameValue(c_out.data[p], PixelCorrelation(p))
    /\ (c_pc = "done" /\ IsArray(c_out)) =>
          /\ c_out.shape = c_before.shape
          /\ \A p \in DOMAIN c_out.data :
                /\ c_writes[p] = 1
                /\ SameValue(c_out.data[p], PixelCorrelation(p))

\* A finished map of three tiles whose pixels do not all hold one value.
C26_Witness ==
    /\ c_pc = "done" /\ IsArray(c_out)
    /\ Len(AllTiles) = 3
    /\ c_window = 3
    /\ \E p, q \in DOMAIN c_out.data : ~SameValue(c_out.data[p], c_out.data[q])
    /\ \A p \in DOMAIN c_out.data : c_writes[p] = 1

====
